---------------------------- MODULE Spec2Model ----------------------------
(***************************************************************************)
(* conworld: a text-adventure engine.  A world of rooms, items, containers *)
(* and one player is mutated by command lines fed to a command kernel.     *)
(*                                                                         *)
(* Text is modelled character by character: a string is a sequence of      *)
(* one-character strings.  Entities are identified by a short id; their    *)
(* display name (a string in the above sense) is given by Name.            *)
(***************************************************************************)
EXTENDS Naturals, Sequences, FiniteSets, TLC

(***************************************************************************)
(* Generic sequence helpers (Python list primitives).                      *)
(***************************************************************************)
NULL == "null"
PLAYER == "player"

\* `x in list`
InSeq(x, q) == \E k \in 1..Len(q) : q[k] = x

\* list.remove(x): drops the first occurrence
RemoveFirst(q, x) ==
    LET k == CHOOSE j \in 1..Len(q) : q[j] = x /\ \A h \in 1..(j-1) : q[h] # x
    IN  SubSeq(q, 1, k-1) \o SubSeq(q, k+1, Len(q))

RECURSIVE Flatten(_)
Flatten(qq) == IF qq = <<>> THEN <<>> ELSE Head(qq) \o Flatten(Tail(qq))

\* number of positions of q holding x
Count(q, x) == Cardinality({k \in 1..Len(q) : q[k] = x})

NoDup(q) == \A a, b \in 1..Len(q) : q[a] = q[b] => a = b

SP == " "

(***************************************************************************)
(* The authored world: two rooms joined by doors, a coin, a box that can   *)
(* be carried and a chest that cannot.                                     *)
(***************************************************************************)
Rooms == {"hall", "lab"}
Items == {"coin", "box", "chest"}
Containers == {"box", "chest"}

IsContainer(i) == i \in Containers

\* Item._inventory: can the player hold it
Takeable(i) == i \in {"coin", "box"}

\* a Container.__init__ that does not force the flag to False
ContainableAsGiven(i) == TRUE

\* Item._containable; Container.__init__ forces False
Containable(i) == IF IsContainer(i) THEN FALSE ELSE TRUE

Name(i) ==
    CASE i = "coin"  -> <<"c","o","i","n">>
      [] i = "box"   -> <<"b","o","x">>
      [] i = "chest" -> <<"c","h","e","s","t">>
      [] i = "hall"  -> <<"h","a","l","l">>
      [] i = "lab"   -> <<"l","a","b">>
      [] OTHER       -> <<>>

Synonyms(i) ==
    CASE i = "coin"  -> { <<"p","e","n","n","y">>, <<"t","h","i","n","g">> }
      [] i = "box"   -> { <<"t","h","i","n","g">>, <<"c","a","s","e">> }
      [] i = "chest" -> { <<"t","r","u","n","k">>, <<"c","a","s","e">> }
      [] OTHER       -> {}

\* words of the vocabulary, spelled out
W_north == <<"n","o","r","t","h">>
W_south == <<"s","o","u","t","h">>
W_east  == <<"e","a","s","t">>
W_west  == <<"w","e","s","t">>
W_up    == <<"u","p">>
W_down  == <<"d","o","w","n">>

DIRECTIONS == {W_north, W_south, W_east, W_west, W_up, W_down}

\* DIRECTION_SYNONYMS[w], or NULL when w is no key of the table
DIRECTION_SYNONYMS(w) ==
    CASE w \in { <<"n">>, W_north \o <<"w","a","r","d">>, W_north \o <<"w","a","r","d","s">> } -> W_north
      [] w \in { <<"s">>, W_south \o <<"w","a","r","d">>, W_south \o <<"w","a","r","d","s">> } -> W_south
      [] w \in { <<"e">>, W_east \o <<"w","a","r","d">>, W_east \o <<"w","a","r","d","s">> } -> W_east
      [] w \in { <<"w">>, W_west \o <<"w","a","r","d">>, W_west \o <<"w","a","r","d","s">> } -> W_west
      [] w \in { <<"u">>, W_up \o <<"w","a","r","d">>, W_up \o <<"w","a","r","d","s">> } -> W_up
      [] w \in { <<"d">>, W_down \o <<"w","a","r","d">>, W_down \o <<"w","a","r","d","s">> } -> W_down
      [] OTHER -> NULL

\* paths created by Room.add_path: <<source room, direction>>
Paths == { <<"hall", W_north>>, <<"lab", W_south>> }
PathDest(p) == IF p = <<"hall", W_north>> THEN "lab" ELSE "hall"
PathName(p) == <<"d","o","o","r">>

(***************************************************************************)
(* Program state.  Operations are written as functions from a state record *)
(* to a state record; s.err names the exception that aborted the call, if  *)
(* any: once it is set every later statement of the call is skipped.       *)
(***************************************************************************)
VARIABLES
    room_items,   \* AbstractRoom._items, per room: list of item ids
    inventory,    \* Player._inventory
    location,     \* Player.location
    item_room,    \* Item._room
    item_player,  \* Item._player
    owner,        \* Item._owner
    con_items,    \* Container._items
    opened,       \* Container._opened
    locked,       \* Container._locked
    blocked,      \* Path._blocked
    subs,         \* callbacks subscribed to each item's on_echo
    path_blocked, \* path.Path._blocked of a path object built from path.py
    callbacks,    \* Event._callbacks of an event a script subscribes to
    world_rooms,  \* AbstractWorld._rooms
    room_world,   \* Room._world
    room_subs,    \* callbacks subscribed to each room's on_echo
    log,          \* what the last call emitted: messages reaching the I/O
                  \* boundary, domain events triggered, commands executed
    err,          \* exception raised by the last call ("" if none)
    fail,         \* the last call took a failure branch of some operation
    op,           \* the last call
    arg,          \* its argument (input line, item name, ...)
    ret,          \* the value it returned (NULL for None)
    outstream     \* IODriver._outstream

vars == << room_items, inventory, location, item_room, item_player, owner,
           con_items, opened, locked, blocked, subs, world_rooms, room_world,
           room_subs, path_blocked, callbacks, log, err, fail, op, arg, ret, outstream >>

world == << room_items, inventory, location, item_room, item_player, owner,
            con_items, opened, locked, blocked, subs, world_rooms, room_world,
            room_subs, path_blocked >>

Ok(s) == s.err = ""

\* an exception propagates: the first one raised is the one recorded
Raise(s, e) == IF Ok(s) THEN [s EXCEPT !.err = e] ELSE s

Failed(s) == IF Ok(s) THEN [s EXCEPT !.fail = TRUE] ELSE s

RoomCb(r) == <<"room", r>>
PlayerCb == <<"player", PLAYER>>

Msg(key, a1, a2) == <<"msg", key, a1, a2>>
EventEntry(ev, who) == <<"event", ev, who, <<>> >>
ExecEntry(cmd) == <<"exec", cmd, <<>>, <<>> >>

Emit(s, e) == IF Ok(s) THEN [s EXCEPT !.log = Append(@, e)] ELSE s

RECURSIVE EmitN(_, _, _)
EmitN(s, e, n) == IF n = 0 THEN s ELSE EmitN(Emit(s, e), e, n - 1)

\* a domain event (on_open, on_take_item, ...): no callbacks are subscribed,
\* the trigger is recorded
Trigger(s, ev, who) == Emit(s, EventEntry(ev, who))

(***************************************************************************)
(* Event.subscribe / Event.unsubscribe on an item's on_echo.               *)
(***************************************************************************)
Subscribe(s, i, cb) ==
    IF ~Ok(s) THEN s
    ELSE IF InSeq(cb, s.subs[i]) THEN Raise(s, "RuntimeError")
    ELSE [s EXCEPT !.subs[i] = Append(@, cb)]

Unsubscribe(s, i, cb) ==
    IF ~Ok(s) THEN s
    ELSE IF InSeq(cb, s.subs[i]) THEN [s EXCEPT !.subs[i] = RemoveFirst(@, cb)]
    ELSE Raise(s, "RuntimeError")

(***************************************************************************)
(* Echo.  An item's echo is relayed once by every parent subscribed to its *)
(* on_echo (room.object_echo or player.object_echo), each of which relays  *)
(* to the world and on to the I/O driver.                                  *)
(***************************************************************************)
WorldCb == <<"world", "world">>

\* how many times a message handed to the callback reaches the world: a
\* room relays it to every callback on its own on_echo, the player is
\* subscribed by the world once
Relays(s, cb) == IF cb[1] = "room" THEN Len(s.room_subs[cb[2]]) ELSE 1

RECURSIVE RelaysAll(_, _)
RelaysAll(s, cbs) ==
    IF cbs = <<>> THEN 0 ELSE Relays(s, Head(cbs)) + RelaysAll(s, Tail(cbs))

ItemEcho(s, i, m) == IF Ok(s) THEN EmitN(s, m, RelaysAll(s, s.subs[i])) ELSE s

\* Item.context: the room name is taken from the room or, when the item has
\* none, from the player's location
ItemEchoText(s, i, m) ==
    IF ~Ok(s) THEN s
    ELSE IF s.item_room[i] = NULL /\ s.item_player[i] = NULL
         THEN Raise(s, "AttributeError")
    ELSE ItemEcho(s, i, m)

PlayerEcho(s, m) == Emit(s, m)
RoomEcho(s, r, m) == IF Ok(s) THEN EmitN(s, m, Len(s.room_subs[r])) ELSE s
CommandEcho(s, m) == Emit(s, m)
KernelEcho(s, m) == Emit(s, m)

(***************************************************************************)
(* Field assignments, skipped once an exception is in flight.              *)
(***************************************************************************)
AssignRoom(s, i, r)    == IF Ok(s) THEN [s EXCEPT !.item_room[i] = r] ELSE s
AssignPlayer(s, i, p)  == IF Ok(s) THEN [s EXCEPT !.item_player[i] = p] ELSE s
AssignOwner(s, i, o)   == IF Ok(s) THEN [s EXCEPT !.owner[i] = o] ELSE s
AssignOpened(s, c, v)  == IF Ok(s) THEN [s EXCEPT !.opened[c] = v] ELSE s
AssignLocked(s, c, v)  == IF Ok(s) THEN [s EXCEPT !.locked[c] = v] ELSE s
AssignBlocked(s, p, v) == IF Ok(s) THEN [s EXCEPT !.blocked[p] = v] ELSE s
AssignLocation(s, r)   == IF Ok(s) THEN [s EXCEPT !.location = r] ELSE s

RoomItemsAppend(s, r, i) ==
    IF Ok(s) THEN [s EXCEPT !.room_items[r] = Append(@, i)] ELSE s
RoomItemsRemove(s, r, i) ==
    IF Ok(s) THEN [s EXCEPT !.room_items[r] = RemoveFirst(@, i)] ELSE s
InventoryAppend(s, i) ==
    IF Ok(s) THEN [s EXCEPT !.inventory = Append(@, i)] ELSE s
InventoryRemove(s, i) ==
    IF Ok(s) THEN [s EXCEPT !.inventory = RemoveFirst(@, i)] ELSE s
ConItemsAppend(s, c, i) ==
    IF Ok(s) THEN [s EXCEPT !.con_items[c] = Append(@, i)] ELSE s
ConItemsRemove(s, c, i) ==
    IF Ok(s) THEN [s EXCEPT !.con_items[c] = RemoveFirst(@, i)] ELSE s

(***************************************************************************)
(* room / player / owner setters                                           *)
(***************************************************************************)
UnsubscribeRoom(s, i) ==
    IF Ok(s) /\ s.item_room[i] # NULL
    THEN Unsubscribe(s, i, RoomCb(s.item_room[i])) ELSE s

SubscribeRoom(s, i, r) == IF r # NULL THEN Subscribe(s, i, RoomCb(r)) ELSE s

\* an Item.room setter that does not unsubscribe the room the item leaves
ItemSetRoomKeepsOld(s, i, r) == SubscribeRoom(AssignRoom(s, i, r), i, r)

\* Item.room setter (also the first half of Container.room setter)
ItemSetRoom(s, i, r) == SubscribeRoom(AssignRoom(UnsubscribeRoom(s, i), i, r), i, r)

UnsubscribePlayer(s, i) ==
    IF Ok(s) /\ s.item_player[i] # NULL THEN Unsubscribe(s, i, PlayerCb) ELSE s

SubscribePlayer(s, i, p) == IF p # NULL THEN Subscribe(s, i, PlayerCb) ELSE s

\* Item.player setter (also the first half of Container.player setter)
ItemSetPlayer(s, i, p) ==
    SubscribePlayer(AssignPlayer(UnsubscribePlayer(s, i), i, p), i, p)

RECURSIVE SetRoom(_, _, _), SetRoomAll(_, _, _), SetRoomContents(_, _, _)
\* `item.room = r`, dispatched on the item's class
SetRoom(s, i, r) == SetRoomContents(ItemSetRoom(s, i, r), i, r)

\* Container.room setter: the same for all the items in the container
SetRoomContents(s, i, r) ==
    IF Ok(s) /\ IsContainer(i) THEN SetRoomAll(s, s.con_items[i], r) ELSE s

SetRoomAll(s, items, r) ==
    IF items = <<>> \/ ~Ok(s) THEN s
    ELSE SetRoomAll(SetRoom(s, Head(items), r), Tail(items), r)

RECURSIVE SetPlayer(_, _, _), SetPlayerAll(_, _, _), SetPlayerContents(_, _, _)
\* `item.player = p`, dispatched on the item's class
SetPlayer(s, i, p) == SetPlayerContents(ItemSetPlayer(s, i, p), i, p)

SetPlayerContents(s, i, p) ==
    IF Ok(s) /\ IsContainer(i) THEN SetPlayerAll(s, s.con_items[i], p) ELSE s

SetPlayerAll(s, items, p) ==
    IF items = <<>> \/ ~Ok(s) THEN s
    ELSE SetPlayerAll(SetPlayer(s, Head(items), p), Tail(items), p)

\* Item.owner setter, second statement: self.room = new_owner.room
MirrorOwnerRoom(s, i, o) == IF Ok(s) THEN SetRoom(s, i, s.item_room[o]) ELSE s

\* Item.owner setter, first statement: self.player = new_owner.player
MirrorOwnerPlayer(s, i, o) == IF Ok(s) THEN SetPlayer(s, i, s.item_player[o]) ELSE s

\* Item.owner setter
SetOwner(s, i, o) ==
    IF o # NULL
    THEN MirrorOwnerRoom(MirrorOwnerPlayer(AssignOwner(s, i, o), i, o), i, o)
    ELSE AssignOwner(s, i, o)

(***************************************************************************)
(* AbstractRoom.add / remove                                               *)
(***************************************************************************)
RECURSIVE RoomAdd(_, _, _), RoomAddOne(_, _, _), RoomAddContents(_, _, _)
\* AbstractRoom.add(items)
RoomAdd(s, r, items) ==
    IF items = <<>> \/ ~Ok(s) THEN s
    ELSE RoomAdd(RoomAddOne(s, r, Head(items)), r, Tail(items))

\* the body of the loop of AbstractRoom.add
RoomAddOne(s, r, item) ==
    IF InSeq(item, s.room_items[r]) THEN s
    ELSE RoomAddContents(
            SetPlayer(RoomItemsAppend(SetRoom(s, item, r), r, item), item, NULL),
            r, item)

\* AbstractRoom.add: add the items in a container
RoomAddContents(s, r, item) ==
    IF Ok(s) /\ IsContainer(item) THEN RoomAdd(s, r, s.con_items[item]) ELSE s

RECURSIVE RoomRemove(_, _, _), RoomRemoveAll(_, _, _), RoomRemoveContents(_, _, _)
\* AbstractRoom.remove(item)
RoomRemove(s, r, item) ==
    IF ~Ok(s) THEN s
    ELSE IF InSeq(item, s.room_items[r])
    THEN RoomRemoveContents(RoomItemsRemove(SetRoom(s, item, NULL), r, item), r, item)
    ELSE Raise(s, "RuntimeError")

\* AbstractRoom.remove: remove the items in a container
RoomRemoveContents(s, r, item) ==
    IF Ok(s) /\ IsContainer(item) THEN RoomRemoveAll(s, r, s.con_items[item]) ELSE s

RoomRemoveAll(s, r, items) ==
    IF items = <<>> \/ ~Ok(s) THEN s
    ELSE RoomRemoveAll(RoomRemove(s, r, Head(items)), r, Tail(items))

(***************************************************************************)
(* Player._insert / Player._erase                                          *)
(***************************************************************************)
\* a Player._insert that leaves the item in the room it was in
LeaveRoomSkipped(s, item) == s

\* a Player._insert that removes the item from the player's room without
\* asking whether the item is in a room
LeaveRoomUnguarded(s, item) ==
    IF Ok(s) THEN RoomRemove(s, s.location, item) ELSE s

\* Player._insert: take the item out of the room it is in
LeaveRoom(s, item) ==
    IF Ok(s) /\ s.item_room[item] # NULL
    THEN RoomRemove(s, s.item_room[item], item) ELSE s

RECURSIVE PlayerInsert(_, _), PlayerInsertAll(_, _), PlayerInsertContents(_, _)
\* Player._insert(item)
PlayerInsert(s, item) ==
    PlayerInsertContents(
        InventoryAppend(SetPlayer(LeaveRoom(s, item), item, PLAYER), item), item)

\* a Player._insert that leaves the contents of a container behind
PlayerInsertContentsSkipped(s, item) == s

\* Player._insert: add to the inventory the contents of a container
PlayerInsertContents(s, item) ==
    IF Ok(s) /\ IsContainer(item) THEN PlayerInsertAll(s, s.con_items[item]) ELSE s

PlayerInsertAll(s, items) ==
    IF items = <<>> \/ ~Ok(s) THEN s
    ELSE PlayerInsertAll(PlayerInsert(s, Head(items)), Tail(items))

RECURSIVE PlayerErase(_, _), PlayerEraseAll(_, _), PlayerEraseContents(_, _)
\* Player._erase(item)
PlayerErase(s, item) ==
    IF Ok(s) /\ InSeq(item, s.inventory)
    THEN PlayerEraseContents(
            InventoryRemove(RoomAdd(s, s.location, <<item>>), item), item)
    ELSE s

\* Player._erase: throw away from the inventory the contents of a container
PlayerEraseContents(s, item) ==
    IF Ok(s) /\ IsContainer(item) THEN PlayerEraseAll(s, s.con_items[item]) ELSE s

PlayerEraseAll(s, items) ==
    IF items = <<>> \/ ~Ok(s) THEN s
    ELSE PlayerEraseAll(PlayerErase(s, Head(items)), Tail(items))

(***************************************************************************)
(* enumerate_items: "a", "a and b", "a, b and c"                           *)
(***************************************************************************)
W_and == <<"a","n","d">>

RECURSIVE EnumerateHead(_)
\* the loop over items[:-2]: each name followed by ", "
EnumerateHead(names) ==
    IF Len(names) <= 2 THEN <<>>
    ELSE Head(names) \o <<",", SP>> \o EnumerateHead(Tail(names))

enumerate_items(names) ==
    IF Len(names) > 1
    THEN EnumerateHead(names) \o names[Len(names) - 1] \o <<SP>>
         \o W_and \o <<SP>> \o names[Len(names)]
    ELSE IF Len(names) = 1 THEN names[1]
    ELSE <<>>

NamesOf(items) == [k \in 1..Len(items) |-> Name(items[k])]

\* Container.context: the "items" entry, formatted by the method's own copy
\* of the loop
ContainerContextItems(names) ==
    IF Len(names) > 1
    THEN EnumerateHead(names) \o names[Len(names) - 1] \o <<SP>>
         \o W_and \o <<SP>> \o names[Len(names)]
    ELSE IF Len(names) = 1 THEN names[1]
    ELSE <<>>

(***************************************************************************)
(* Container                                                               *)
(***************************************************************************)
\* Container.__init__: a locked container starts closed
InitOpened(openedArg, lockedArg) == IF lockedArg THEN FALSE ELSE openedArg

\* Container.look: the description and the open/closed line
DescribeSelf(s, c) ==
    IF Ok(s) /\ s.opened[c]
    THEN ItemEchoText(ItemEcho(s, c, Msg("DESCRIPTION", Name(c), <<>>)), c,
                      Msg("OPENED", Name(c), <<>>))
    ELSE ItemEchoText(ItemEcho(s, c, Msg("DESCRIPTION", Name(c), <<>>)), c,
                      Msg("CLOSED", Name(c), <<>>))

\* Container.look: the items in the container if it is open
DescribeItems(s, c) ==
    IF Ok(s) /\ s.opened[c]
    THEN IF Len(s.con_items[c]) >= 1
         THEN ItemEchoText(s, c, Msg("LOOK_ITEMS", Name(c),
                                     ContainerContextItems(NamesOf(s.con_items[c]))))
         ELSE ItemEchoText(s, c, Msg("LOOK_EMPTY", Name(c), <<>>))
    ELSE s

\* Container.look
ContainerLook(s, c, describe_self, describe_items) ==
    Trigger(
        IF describe_items
        THEN DescribeItems(IF describe_self THEN DescribeSelf(s, c) ELSE s, c)
        ELSE (IF describe_self THEN DescribeSelf(s, c) ELSE s),
        "on_look", Name(c))

\* a Container.open that triggers on_open also when already open
ContainerOpenRefires(s, c) ==
    IF ~Ok(s) THEN s
    ELSE IF ~s.opened[c]
    THEN IF ~s.locked[c]
         THEN Trigger(
                ContainerLook(
                    ItemEchoText(AssignOpened(s, c, TRUE), c, Msg("OPEN", Name(c), <<>>)),
                    c, FALSE, TRUE),
                "on_open", Name(c))
         ELSE Failed(ItemEchoText(s, c, Msg("OPEN_LOCKED", Name(c), <<>>)))
    ELSE Trigger(Failed(ItemEchoText(s, c, Msg("ALREADY_OPEN", Name(c), <<>>))),
                 "on_open", Name(c))

\* Container.open
ContainerOpen(s, c) ==
    IF ~Ok(s) THEN s
    ELSE IF ~s.opened[c]
    THEN IF ~s.locked[c]
         THEN Trigger(
                ContainerLook(
                    ItemEchoText(AssignOpened(s, c, TRUE), c, Msg("OPEN", Name(c), <<>>)),
                    c, FALSE, TRUE),
                "on_open", Name(c))
         ELSE Failed(ItemEchoText(s, c, Msg("OPEN_LOCKED", Name(c), <<>>)))
    ELSE Failed(ItemEchoText(s, c, Msg("ALREADY_OPEN", Name(c), <<>>)))

\* a Container.close that triggers on_close whether it closed or not
ContainerCloseAlwaysFires(s, c) ==
    IF ~Ok(s) THEN s
    ELSE IF s.opened[c]
    THEN Trigger(
            ItemEchoText(AssignOpened(s, c, FALSE), c, Msg("CLOSE", Name(c), <<>>)),
            "on_close", Name(c))
    ELSE Trigger(
            Failed(ItemEchoText(s, c, Msg("ALREADY_CLOSED", Name(c), <<>>))),
            "on_close", Name(c))

\* Container.close
ContainerClose(s, c) ==
    IF ~Ok(s) THEN s
    ELSE IF s.opened[c]
    THEN Trigger(
            ItemEchoText(AssignOpened(s, c, FALSE), c, Msg("CLOSE", Name(c), <<>>)),
            "on_close", Name(c))
    ELSE Failed(ItemEchoText(s, c, Msg("ALREADY_CLOSED", Name(c), <<>>)))

\* a Container.unlock that leaves the container closed
ContainerUnlockStaysClosed(s, c) ==
    IF ~Ok(s) THEN s
    ELSE IF s.locked[c]
    THEN Trigger(
            ItemEchoText(AssignLocked(s, c, FALSE), c, Msg("UNLOCK", Name(c), <<>>)),
            "on_unlock", Name(c))
    ELSE Failed(ItemEchoText(s, c, Msg("ALREADY_UNLOCKED", Name(c), <<>>)))

\* Container.unlock
ContainerUnlock(s, c) ==
    IF ~Ok(s) THEN s
    ELSE IF s.locked[c]
    THEN ContainerOpen(
            Trigger(
                ItemEchoText(AssignLocked(s, c, FALSE), c, Msg("UNLOCK", Name(c), <<>>)),
                "on_unlock", Name(c)),
            c)
    ELSE Failed(ItemEchoText(s, c, Msg("ALREADY_UNLOCKED", Name(c), <<>>)))

\* Container.lock: close the container before locking it
CloseIfOpen(s, c) == IF Ok(s) /\ s.opened[c] THEN ContainerClose(s, c) ELSE s

\* a Container.lock that does not close the container first
ContainerLockKeepsOpen(s, c) ==
    IF ~Ok(s) THEN s
    ELSE IF ~s.locked[c]
    THEN Trigger(
            ItemEchoText(AssignLocked(s, c, TRUE), c, Msg("LOCK", Name(c), <<>>)),
            "on_lock", Name(c))
    ELSE Failed(ItemEchoText(s, c, Msg("ALREADY_LOCKED", Name(c), <<>>)))

\* Container.lock
ContainerLock(s, c) ==
    IF ~Ok(s) THEN s
    ELSE IF ~s.locked[c]
    THEN Trigger(
            ItemEchoText(AssignLocked(CloseIfOpen(s, c), c, TRUE), c,
                         Msg("LOCK", Name(c), <<>>)),
            "on_lock", Name(c))
    ELSE Failed(ItemEchoText(s, c, Msg("ALREADY_LOCKED", Name(c), <<>>)))

\* Container._insert: self.room.add(item)
AddToContainerRoom(s, c, item) ==
    IF Ok(s) THEN RoomAdd(s, s.item_room[c], <<item>>) ELSE s

\* Container._insert: bring the item to where the container is
MoveToContainer(s, c, item) ==
    IF ~Ok(s) THEN s
    ELSE IF s.item_room[item] = NULL /\ s.item_room[c] # NULL
    THEN \* item.player._erase(item); self.room.add(item)
         IF s.item_player[item] = NULL THEN Raise(s, "AttributeError")
         ELSE AddToContainerRoom(PlayerErase(s, item), c, item)
    ELSE IF s.item_player[item] = NULL /\ s.item_player[c] # NULL
    THEN \* item.room.remove(item); self.player._insert(item)
         IF s.item_room[item] = NULL THEN Raise(s, "AttributeError")
         ELSE PlayerInsert(RoomRemove(s, s.item_room[item], item), item)
    ELSE s

\* the body of the loop of Container._insert
ContainerInsertOne(s, c, item) ==
    IF InSeq(item, s.con_items[c]) THEN s
    ELSE ConItemsAppend(SetOwner(MoveToContainer(s, c, item), item, c), c, item)

RECURSIVE ContainerInsert(_, _, _)
\* Container._insert(items)
ContainerInsert(s, c, items) ==
    IF items = <<>> \/ ~Ok(s) THEN s
    ELSE ContainerInsert(ContainerInsertOne(s, c, Head(items)), c, Tail(items))

\* a Container.add without the locked and closed checks
ContainerAddUnchecked(s, c, item) ==
    IF ~Ok(s) THEN s
    ELSE IF s.owner[item] # NULL
    THEN Failed(ItemEchoText(s, c,
                  Msg("ADD_CONTAINED", Name(item), Name(s.owner[item]))))
    ELSE IF InSeq(item, s.con_items[c])
    THEN Failed(ItemEchoText(s, c, Msg("ALREADY_ADDED", Name(item), Name(c))))
    ELSE IF ~Containable(item)
    THEN Failed(ItemEchoText(s, c, Msg("ADD_NOT_CONTAINABLE", Name(item), Name(c))))
    ELSE Trigger(
            ItemEchoText(ContainerInsert(s, c, <<item>>), c,
                         Msg("ADD", Name(item), Name(c))),
            "on_add_item", Name(c))

\* Container.add
ContainerAdd(s, c, item) ==
    IF ~Ok(s) THEN s
    ELSE IF s.owner[item] # NULL
    THEN Failed(ItemEchoText(s, c,
                  Msg("ADD_CONTAINED", Name(item), Name(s.owner[item]))))
    ELSE IF InSeq(item, s.con_items[c])
    THEN Failed(ItemEchoText(s, c, Msg("ALREADY_ADDED", Name(item), Name(c))))
    ELSE IF ~Containable(item)
    THEN Failed(ItemEchoText(s, c, Msg("ADD_NOT_CONTAINABLE", Name(item), Name(c))))
    ELSE IF s.locked[c]
    THEN Failed(ItemEchoText(s, c, Msg("ADD_LOCKED", Name(item), Name(c))))
    ELSE IF ~s.opened[c]
    THEN Failed(ItemEchoText(s, c, Msg("CLOSED", Name(c), <<>>)))
    ELSE Trigger(
            ItemEchoText(ContainerInsert(s, c, <<item>>), c,
                         Msg("ADD", Name(item), Name(c))),
            "on_add_item", Name(c))

\* a Container._erase that leaves the item's owner as it is
ContainerEraseKeepsOwner(s, c, item) ==
    IF Ok(s) /\ InSeq(item, s.con_items[c]) THEN ConItemsRemove(s, c, item) ELSE s

\* Container._erase
ContainerErase(s, c, item) ==
    IF Ok(s) /\ InSeq(item, s.con_items[c])
    THEN ConItemsRemove(SetOwner(s, item, NULL), c, item)
    ELSE s

\* Container.remove
ContainerRemove(s, c, item) ==
    IF ~Ok(s) THEN s
    ELSE IF ~InSeq(item, s.con_items[c])
    THEN Failed(ItemEchoText(s, c, Msg("ALREADY_REMOVED", Name(item), Name(c))))
    ELSE IF s.locked[c]
    THEN Failed(ItemEchoText(s, c, Msg("REMOVE_LOCKED", Name(item), Name(c))))
    ELSE IF ~s.opened[c]
    THEN Failed(ItemEchoText(s, c, Msg("CLOSED", Name(c), <<>>)))
    ELSE Trigger(
            ItemEchoText(ContainerErase(s, c, item), c,
                         Msg("REMOVE", Name(item), Name(c))),
            "on_remove_item", Name(c))

(***************************************************************************)
(* Item.look / Item.use                                                    *)
(***************************************************************************)
ItemLook(s, i) ==
    Trigger(ItemEchoText(s, i, Msg("DESCRIPTION", Name(i), <<>>)), "on_look", Name(i))

ItemUse(s, i) ==
    Trigger(ItemEchoText(s, i, Msg("USE", Name(i), <<>>)), "on_use", Name(i))

\* Item.context()["room"]
ContextRoom(s, i) ==
    IF s.item_room[i] = NULL THEN Name(s.location) ELSE Name(s.item_room[i])

\* Key.use: the second test of the elif reads self.player.location
KeyFarFrom(s, k, target) ==
    IF s.item_player[k] = NULL THEN Raise(s, "AttributeError")
    ELSE IF s.location # s.item_room[target]
    THEN Failed(ItemEchoText(s, k, Msg("CONTAINER_NOT_IN_ROOM", Name(k),
                                       ContextRoom(s, k))))
    ELSE Trigger(ContainerUnlock(s, target), "on_use", Name(k))

\* Key.use of a key k whose container_to_open is target
KeyUse(s, k, target) ==
    IF ~Ok(s) THEN s
    ELSE IF target = NULL
    THEN Failed(ItemEchoText(s, k, Msg("NO_CONTAINER_TO_OPEN", Name(k), <<>>)))
    ELSE IF s.item_room[k] # s.item_room[target]
    THEN KeyFarFrom(s, k, target)
    ELSE Trigger(ContainerUnlock(s, target), "on_use", Name(k))

\* item.look(), dispatched on the item's class
Look(s, i) == IF IsContainer(i) THEN ContainerLook(s, i, TRUE, TRUE) ELSE ItemLook(s, i)

(***************************************************************************)
(* Path (room.py)                                                          *)
(***************************************************************************)
\* block, unblock and toggle take echo=True; the confirmation is echoed
\* "if echo", the refusals always
PathBlock(s, p, echo) ==
    IF ~Ok(s) THEN s
    ELSE IF ~s.blocked[p]
    THEN Trigger(
            IF echo
            THEN RoomEcho(AssignBlocked(s, p, TRUE), p[1],
                          Msg("BLOCK", PathName(p), Name(PathDest(p))))
            ELSE AssignBlocked(s, p, TRUE),
            "on_block", p[2])
    ELSE Failed(RoomEcho(s, p[1], Msg("ALREADY_BLOCKED", PathName(p), Name(PathDest(p)))))

PathUnblock(s, p, echo) ==
    IF ~Ok(s) THEN s
    ELSE IF s.blocked[p]
    THEN Trigger(
            IF echo
            THEN RoomEcho(AssignBlocked(s, p, FALSE), p[1],
                          Msg("UNBLOCK", PathName(p), Name(PathDest(p))))
            ELSE AssignBlocked(s, p, FALSE),
            "on_unblock", p[2])
    ELSE Failed(RoomEcho(s, p[1], Msg("ALREADY_UNBLOCKED", PathName(p), Name(PathDest(p)))))

PathToggle(s, p, echo) ==
    IF ~Ok(s) THEN s
    ELSE IF s.blocked[p] THEN PathUnblock(s, p, echo) ELSE PathBlock(s, p, echo)

(***************************************************************************)
(* Path (path.py): the same path built from the class of path.py, with one *)
(* listener on its on_echo                                                 *)
(***************************************************************************)
PathPy == <<"hall", W_north>>

PathPyEcho(s, key) == Emit(s, Msg(key, PathName(PathPy), Name(PathDest(PathPy))))

AssignPathBlocked(s, v) == IF Ok(s) THEN [s EXCEPT !.path_blocked = v] ELSE s

PathPyBlock(s, echo) ==
    IF ~Ok(s) THEN s
    ELSE IF ~s.path_blocked
    THEN Trigger(
            IF echo THEN PathPyEcho(AssignPathBlocked(s, TRUE), "BLOCK")
            ELSE AssignPathBlocked(s, TRUE),
            "on_block", PathPy[2])
    ELSE Failed(PathPyEcho(s, "ALREADY_UNBLOCKED"))

PathPyUnblock(s, echo) ==
    IF ~Ok(s) THEN s
    ELSE IF s.path_blocked
    THEN Trigger(
            IF echo THEN PathPyEcho(AssignPathBlocked(s, FALSE), "UNBLOCK")
            ELSE AssignPathBlocked(s, FALSE),
            "on_unblock", PathPy[2])
    ELSE Failed(PathPyEcho(s, "ALREADY_BLOCKED"))

PathPyToggle(s, echo) ==
    IF ~Ok(s) THEN s
    ELSE IF s.path_blocked THEN PathPyUnblock(s, echo) ELSE PathPyBlock(s, echo)

(***************************************************************************)
(* Room                                                                    *)
(***************************************************************************)
\* Room.get_path(direction) for a canonical direction: the path or NULL
GetPath(r, direction) == IF <<r, direction>> \in Paths THEN <<r, direction>> ELSE NULL

\* the items of the room that are in no container
VisibleItems(s, r) == SelectSeq(s.room_items[r], LAMBDA i : s.owner[i] = NULL)

\* Room.look: the line that lists the items
LookItemsLine(s, r) ==
    IF Len(VisibleItems(s, r)) >= 1
    THEN Msg("LOOK_ITEMS", Name(r), enumerate_items(NamesOf(VisibleItems(s, r))))
    ELSE Msg("LOOK_EMPTY", Name(r), enumerate_items(NamesOf(VisibleItems(s, r))))

\* Room.look
RoomLook(s, r) ==
    Trigger(
        RoomEcho(
            RoomEcho(RoomEcho(s, r, Msg("ROOM_DESCRIPTION", Name(r), <<>>)),
                     r, Msg("LOOK_PATHS", Name(r), <<>>)),
            r, LookItemsLine(s, r)),
        "on_look", Name(r))

\* a Room.enter that triggers on_enter before the player has looked
RoomEnterEventFirst(s, r) ==
    RoomLook(Trigger(RoomEcho(s, r, Msg("ENTER", Name(r), <<>>)), "on_enter", Name(r)), r)

\* Room.enter
RoomEnter(s, r) ==
    Trigger(RoomLook(RoomEcho(s, r, Msg("ENTER", Name(r), <<>>)), r), "on_enter", Name(r))

\* Room.exit
RoomExit(s, r) == Trigger(s, "on_exit", Name(r))

(***************************************************************************)
(* Player                                                                  *)
(***************************************************************************)
\* Player.take: item.owner.remove(item)
RemoveFromOwner(s, item) ==
    IF Ok(s) THEN ContainerRemove(s, s.owner[item], item) ELSE s

\* a Player.take that leaves a closed container closed
OpenOwnerSkipped(s, item) == s

\* Player.take: open the container if it is closed
OpenOwner(s, item) ==
    IF Ok(s) /\ ~s.opened[s.owner[item]] THEN ContainerOpen(s, s.owner[item]) ELSE s

\* Player.take: if the item is in a container, take it out of it
TakeOut(s, item) ==
    IF Ok(s) /\ s.owner[item] # NULL THEN RemoveFromOwner(OpenOwner(s, item), item)
    ELSE s

\* a Player.take that reports the locked container and goes on
PlayerTakeContinuesLocked(s, item) ==
    IF ~Ok(s) THEN s
    ELSE IF s.owner[item] # NULL /\ s.locked[s.owner[item]]
    THEN Trigger(
            PlayerEcho(PlayerInsert(TakeOut(
                          PlayerEcho(s, Msg("TAKE_IN_LOCKED_CONTAINER", Name(item),
                                            Name(s.owner[item]))), item), item),
                       Msg("TAKE", Name(item), <<>>)),
            "on_take_item", Name(item))
    ELSE Trigger(
            PlayerEcho(PlayerInsert(TakeOut(s, item), item),
                       Msg("TAKE", Name(item), <<>>)),
            "on_take_item", Name(item))

\* Player.take
PlayerTake(s, item) ==
    IF ~Ok(s) THEN s
    ELSE IF ~Takeable(item)
    THEN Failed(PlayerEcho(PlayerEcho(s, Msg("TAKE_NOT_INVENTORY", Name(item), <<>>)),
                           Msg("TAKE_NOT_INVENTORY", Name(item), <<>>)))
    ELSE IF s.owner[item] # NULL /\ s.locked[s.owner[item]]
    THEN Failed(PlayerEcho(s, Msg("TAKE_IN_LOCKED_CONTAINER", Name(item),
                                  Name(s.owner[item]))))
    ELSE IF InSeq(item, s.inventory)
    THEN Failed(PlayerEcho(s, Msg("ALREADY_TAKEN", Name(item), <<>>)))
    ELSE Trigger(
            PlayerEcho(PlayerInsert(TakeOut(s, item), item),
                       Msg("TAKE", Name(item), <<>>)),
            "on_take_item", Name(item))

\* Player.discard: the message, rendered with the player's current room
EchoDiscard(s, item) ==
    IF Ok(s) THEN PlayerEcho(s, Msg("DISCARD", Name(item), Name(s.location))) ELSE s

\* Player.discard
PlayerDiscard(s, item) ==
    IF ~Ok(s) THEN s
    ELSE IF InSeq(item, s.inventory)
    THEN EchoDiscard(Trigger(PlayerErase(s, item), "on_discard_item", Name(item)), item)
    ELSE Failed(EchoDiscard(s, item))

\* Player.move: self.location.enter()
EnterLocation(s) == IF Ok(s) THEN RoomEnter(s, s.location) ELSE s

\* a Player.move that does not look at path.blocked
PlayerMoveThroughBlocked(s, direction) ==
    IF ~Ok(s) THEN s
    ELSE IF GetPath(s.location, direction) # NULL
    THEN Trigger(
            EnterLocation(
                AssignLocation(RoomExit(s, s.location),
                               PathDest(GetPath(s.location, direction)))),
            "on_move", direction)
    ELSE Failed(PlayerEcho(s, Msg("NO_PATH", direction, <<>>)))

\* Player.move
PlayerMove(s, direction) ==
    IF ~Ok(s) THEN s
    ELSE IF GetPath(s.location, direction) # NULL
    THEN IF ~s.blocked[GetPath(s.location, direction)]
         THEN Trigger(
                EnterLocation(
                    AssignLocation(RoomExit(s, s.location),
                                   PathDest(GetPath(s.location, direction)))),
                "on_move", direction)
         ELSE Failed(PlayerEcho(s, Msg("PATH_BLOCKED", direction, <<>>)))
    ELSE Failed(PlayerEcho(s, Msg("NO_PATH", direction, <<>>)))

\* AbstractRoom.get / Player.get: first entry answering to the name
GetByName(items, nm) ==
    IF \E k \in 1..Len(items) : Name(items[k]) = nm \/ nm \in Synonyms(items[k])
    THEN items[CHOOSE k \in 1..Len(items) :
                  /\ Name(items[k]) = nm \/ nm \in Synonyms(items[k])
                  /\ \A h \in 1..(k-1) :
                        ~(Name(items[h]) = nm \/ nm \in Synonyms(items[h]))]
    ELSE NULL

RoomGet(s, r, nm) == GetByName(s.room_items[r], nm)
PlayerGet(s, nm) == GetByName(s.inventory, nm)

(***************************************************************************)
(* Command._preprocess, character by character                             *)
(***************************************************************************)
UPPER == <<"A","B","C","D","E","F","G","H","I","J","K","L","M",
           "N","O","P","Q","R","S","T","U","V","W","X","Y","Z">>
LOWER == <<"a","b","c","d","e","f","g","h","i","j","k","l","m",
           "n","o","p","q","r","s","t","u","v","w","x","y","z">>
DIGITS == {"0","1","2","3","4","5","6","7","8","9"}

\* str.lower on one character
Lower(c) == IF \E k \in 1..26 : UPPER[k] = c
            THEN LOWER[CHOOSE k \in 1..26 : UPPER[k] = c] ELSE c

\* the grave accent, which cannot be written in a string here
GRAVE == "grave"

\* the characters of the class [ grave ~!@#$%^&*()-=_+,./<>?;':\"\[\]{}\|] ;
\* its ")-=" is a range, from ")" to "=", which holds the digits
PUNCT == {GRAVE, "~", "!", "@", "#", "$", "%", "^", "&", "*", "(", ")", "=",
          "_", "+", ",", ".", "/", "<", ">", "?", ";", "'", ":", "\"",
          "[", "]", "{", "}", "|", "-"} \cup DIGITS

\* the vertical tab, chr(11)
VT == ""

\* the characters str.split(), str.strip() and the class \s take for white
\* space: space, tab, newline, carriage return, form feed, vertical tab
Whitespace == {" ", "\t", "\n", "\r", "\f", VT}

\* \w
WordChar(c) == c \in DIGITS \/ c = "_"
               \/ \E k \in 1..26 : UPPER[k] = c \/ LOWER[k] = c

\* [\w\s\d]
NameChar(c) == WordChar(c) \/ c \in Whitespace

RECURSIVE SplitAcc(_, _, _)
SplitAcc(str, cur, acc) ==
    IF str = <<>> THEN (IF cur = <<>> THEN acc ELSE Append(acc, cur))
    ELSE IF Head(str) \in Whitespace
         THEN SplitAcc(Tail(str), <<>>, IF cur = <<>> THEN acc ELSE Append(acc, cur))
         ELSE SplitAcc(Tail(str), Append(cur, Head(str)), acc)

\* str.split()
Split(str) == SplitAcc(str, <<>>, <<>>)

RECURSIVE Join(_)
\* " ".join(words)
Join(ws) == IF ws = <<>> THEN <<>>
            ELSE IF Len(ws) = 1 THEN ws[1]
            ELSE ws[1] \o <<SP>> \o Join(Tail(ws))

RECURSIVE LStrip(_)
LStrip(str) == IF str # <<>> /\ Head(str) \in Whitespace THEN LStrip(Tail(str)) ELSE str

RECURSIVE RStrip(_)
RStrip(str) == IF str # <<>> /\ str[Len(str)] \in Whitespace
               THEN RStrip(SubSeq(str, 1, Len(str) - 1)) ELSE str

\* str.strip()
Strip(str) == RStrip(LStrip(str))

RECURSIVE Collapse(_)
\* re.sub(r"[\s]{2,}", " ", str)
Collapse(str) ==
    IF Len(str) < 2 THEN str
    ELSE IF str[1] \in Whitespace /\ str[2] \in Whitespace
         THEN <<SP>> \o Collapse(LStrip(str))
         ELSE <<str[1]>> \o Collapse(Tail(str))

W_look == <<"l","o","o","k">>
W_view == <<"v","i","e","w">>
W_move == <<"m","o","v","e">>
W_go == <<"g","o">>
W_take == <<"t","a","k","e">>
W_discard == <<"d","i","s","c","a","r","d">>
W_throw == <<"t","h","r","o","w">>
W_away == <<"a","w","a","y">>
W_put == <<"p","u","t">>
W_place == <<"p","l","a","c","e">>
W_in == <<"i","n">>
W_remove == <<"r","e","m","o","v","e">>
W_out == <<"o","u","t">>
W_of == <<"o","f">>
W_from == <<"f","r","o","m">>
W_open == <<"o","p","e","n">>
W_close == <<"c","l","o","s","e">>
W_inventory == <<"i","n","v","e","n","t","o","r","y">>
W_use == <<"u","s","e">>
W_dance == <<"d","a","n","c","e">>
W_the == <<"t","h","e">>
W_a == <<"a">>
W_on == <<"o","n">>
W_inside == <<"i","n","s","i","d","e">>
W_at == <<"a","t">>
W_to == <<"t","o">>
W_room == <<"r","o","o","m">>
W_around == <<"a","r","o","u","n","d">>
W_coin == <<"c","o","i","n">>
W_penny == <<"p","e","n","n","y">>
W_box == <<"b","o","x">>
W_chest == <<"c","h","e","s","t">>
W_trunk == <<"t","r","u","n","k">>
W_ghost == <<"g","h","o","s","t">>
W_thing == <<"t","h","i","n","g">>
W_case == <<"c","a","s","e">>
W_sideways == <<"s","i","d","e","w","a","y","s">>

\* STOPWORDS of the package, and PutCommand.CUSTOM_STOPWORDS
STOPWORDS == {W_the, W_a, W_on, W_in, W_inside, W_at, W_to, W_room, W_around}
CUSTOM_STOPWORDS == {W_the, W_a, W_at, W_to, W_room, W_around}

\* Command._preprocess(input, stopwords)
Preprocess(input, stopwords) ==
    LET lowered == [k \in 1..Len(input) |-> Lower(input[k])]
        nopunct == SelectSeq(lowered, LAMBDA c : c \notin PUNCT)
        kept    == SelectSeq(Split(nopunct), LAMBDA x : x \notin stopwords)
    IN  Collapse(Strip(Join(kept)))

(***************************************************************************)
(* Command patterns.  A match is [ok, a, b]: a and b are the named groups  *)
(* in the order of the pattern.                                            *)
(***************************************************************************)
NoMatch == [ok |-> FALSE, a |-> <<>>, b |-> <<>>]
Matched(x, y) == [ok |-> TRUE, a |-> x, b |-> y]

StartsWith(str, pre) == Len(str) >= Len(pre) /\ SubSeq(str, 1, Len(pre)) = pre
Drop(str, n) == SubSeq(str, n + 1, Len(str))

RECURSIVE TakeWhileName(_)
\* the greedy match of [\w\s\d]* at the start of str
TakeWhileName(str) ==
    IF str # <<>> /\ NameChar(Head(str))
    THEN <<Head(str)>> \o TakeWhileName(Tail(str)) ELSE <<>>

RECURSIVE TakeWhileWord(_)
\* the greedy match of \w* at the start of str
TakeWhileWord(str) ==
    IF str # <<>> /\ WordChar(Head(str))
    THEN <<Head(str)>> \o TakeWhileWord(Tail(str)) ELSE <<>>

RECURSIVE MatchVerbName(_, _)
\* ^(v1|v2|...) (?P<name>[\w\s\d]+): the alternatives are tried in order
MatchVerbName(str, verbs) ==
    IF verbs = <<>> THEN NoMatch
    ELSE LET pre == Head(verbs) \o <<SP>>
         IN  IF StartsWith(str, pre) /\ TakeWhileName(Drop(str, Len(pre))) # <<>>
             THEN Matched(TakeWhileName(Drop(str, Len(pre))), <<>>)
             ELSE MatchVerbName(str, Tail(verbs))

RECURSIVE MatchVerbWord(_, _)
\* ^(v1|v2|...) (?P<word>[\w]+)
MatchVerbWord(str, verbs) ==
    IF verbs = <<>> THEN NoMatch
    ELSE LET pre == Head(verbs) \o <<SP>>
         IN  IF StartsWith(str, pre) /\ TakeWhileWord(Drop(str, Len(pre))) # <<>>
             THEN Matched(TakeWhileWord(Drop(str, Len(pre))), <<>>)
             ELSE MatchVerbWord(str, Tail(verbs))

\* ^(v1|v2|...)$ : the $ matches at the end and before a newline that ends
\* the string
MatchBare(str, verbs) ==
    IF \E k \in 1..Len(verbs) : str = verbs[k] \/ str = verbs[k] \o <<"\n">>
    THEN Matched(<<>>, <<>>) ELSE NoMatch

\* the separator alternatives that match str at position k, with their length
SepAt(str, k, seps) ==
    { n \in 1..Len(str) :
        \E j \in 1..Len(seps) :
            /\ n = Len(seps[j]) + 2
            /\ k + n - 1 <= Len(str)
            /\ SubSeq(str, k, k + n - 1) = <<SP>> \o seps[j] \o <<SP>> }

RECURSIVE MatchVerbNameSepName(_, _, _)
\* ^(v1|...) (?P<a>[\w\d\s]+) (sep1|...) (?P<b>[\w\d\s]+): the first group is
\* greedy, so the separator is the last one that leaves a second group
MatchVerbNameSepName(str, verbs, seps) ==
    IF verbs = <<>> THEN NoMatch
    ELSE LET pre  == Head(verbs) \o <<SP>>
             from == Len(pre) + 1
             cand == { k \in (from + 1)..Len(str) :
                         /\ \A h \in from..(k - 1) : NameChar(str[h])
                         /\ \E n \in SepAt(str, k, seps) :
                               /\ k + n <= Len(str)
                               /\ NameChar(str[k + n]) }
         IN  IF StartsWith(str, pre) /\ cand # {}
             THEN LET k == CHOOSE x \in cand : \A y \in cand : y <= x
                      n == CHOOSE x \in SepAt(str, k, seps) :
                              k + x <= Len(str) /\ NameChar(str[k + x])
                  IN  Matched(SubSeq(str, from, k - 1),
                              TakeWhileName(Drop(str, k + n - 1)))
             ELSE MatchVerbNameSepName(str, Tail(verbs), seps)

(***************************************************************************)
(* The ten commands of command.py, registered with the kernel in the      *)
(* order the classes are defined.                                          *)
(***************************************************************************)
Commands == << "look room", "look item", "move", "take", "discard", "put",
               "remove", "open", "Close", "inventory" >>

\* the stopword list each command preprocesses with
StopwordsOf(cmd) == IF cmd = "put" THEN CUSTOM_STOPWORDS ELSE STOPWORDS

\* the command's PATTERN applied (re.search) to the preprocessed input
PatternMatch(cmd, str) ==
    CASE cmd = "look room" -> MatchBare(str, <<W_look, W_view>>)
      [] cmd = "look item" -> MatchVerbName(str, <<W_look, W_view>>)
      [] cmd = "move"      -> MatchVerbWord(str, <<W_move, W_go>>)
      [] cmd = "take"      -> MatchVerbName(str, <<W_take>>)
      [] cmd = "discard"   -> MatchVerbName(str,
                                 <<W_discard, W_throw \o <<SP>> \o W_away, W_throw>>)
      [] cmd = "put"       -> MatchVerbNameSepName(str, <<W_put, W_place>>, <<W_in>>)
      [] cmd = "remove"    -> MatchVerbNameSepName(str, <<W_remove>>,
                                 <<W_out \o <<SP>> \o W_of, W_from>>)
      [] cmd = "open"      -> MatchVerbName(str, <<W_open>>)
      [] cmd = "Close"     -> MatchVerbName(str, <<W_close>>)
      [] cmd = "inventory" -> MatchBare(str, <<W_inventory>>)

\* Command.match up to the call of execute
Match(cmd, input) == PatternMatch(cmd, Preprocess(input, StopwordsOf(cmd)))

\* resolve a name in the current room, then in the inventory
\* a lookup that asks the inventory before the room
ResolveInventoryFirst(s, nm) ==
    IF PlayerGet(s, nm) # NULL THEN PlayerGet(s, nm)
    ELSE RoomGet(s, s.location, nm)

Resolve(s, nm) ==
    IF RoomGet(s, s.location, nm) # NULL THEN RoomGet(s, s.location, nm)
    ELSE PlayerGet(s, nm)

LookRoomExecute(s) == RoomLook(s, s.location)

\* a look-item that does not ask whether the owner is open
LookItemExecuteThroughLid(s, item_name) ==
    IF Resolve(s, item_name) # NULL THEN Look(s, Resolve(s, item_name))
    ELSE Failed(CommandEcho(s, Msg("LOOK_NO_ITEM", item_name, <<>>)))

LookItemExecute(s, item_name) ==
    LET item == Resolve(s, item_name)
    IN  IF item # NULL
        THEN IF (s.owner[item] # NULL /\ s.opened[s.owner[item]]) \/ s.owner[item] = NULL
             THEN Look(s, item)
             ELSE Failed(CommandEcho(s, Msg("LOOK_NO_ITEM", item_name, <<>>)))
        ELSE Failed(CommandEcho(s, Msg("LOOK_NO_ITEM", item_name, <<>>)))

\* a move command that knows the canonical directions only
MoveExecuteCanonicalOnly(s, direction) ==
    IF direction \in DIRECTIONS THEN PlayerMove(s, direction)
    ELSE Failed(CommandEcho(s, Msg("NO_DIRECTION", direction, <<>>)))

MoveExecute(s, direction) ==
    IF direction \in DIRECTIONS THEN PlayerMove(s, direction)
    ELSE IF DIRECTION_SYNONYMS(direction) # NULL
    THEN PlayerMove(s, DIRECTION_SYNONYMS(direction))
    ELSE Failed(CommandEcho(s, Msg("NO_DIRECTION", direction, <<>>)))

TakeExecute(s, item_name) ==
    IF PlayerGet(s, item_name) # NULL
    THEN Failed(CommandEcho(s, Msg("ALREADY_IN_INVENTORY", item_name, <<>>)))
    ELSE LET item == RoomGet(s, s.location, item_name)
         IN  IF item # NULL THEN PlayerTake(s, item)
             ELSE Failed(CommandEcho(s, Msg("TAKE_NO_ITEM", item_name,
                                            Name(s.location))))

DiscardExecute(s, item_name) ==
    LET item == PlayerGet(s, item_name)
    IN  IF item # NULL THEN PlayerDiscard(s, item)
        ELSE Failed(CommandEcho(s, Msg("DISCARD_NO_ITEM", item_name, <<>>)))

PutExecute(s, item_name, container_name) ==
    LET item == Resolve(s, item_name)
        container == Resolve(s, container_name)
    IN  IF item # NULL /\ container # NULL
        THEN IF IsContainer(container) THEN ContainerAdd(s, container, item)
             ELSE Failed(CommandEcho(s, Msg("PUT_NOT_CONTAINER", container_name, <<>>)))
        ELSE IF item = NULL
        THEN Failed(CommandEcho(s, Msg("PUT_NO_ITEM", item_name, Name(s.location))))
        ELSE Failed(CommandEcho(s, Msg("PUT_NO_CONTAINER", container_name,
                                       Name(s.location))))

\* a remove command that takes the item out of whatever container owns it
RemoveExecuteAnyOwner(s, item_name, container_name) ==
    LET item == Resolve(s, item_name)
    IN  IF item = NULL
        THEN Failed(CommandEcho(s, Msg("REMOVE_NO_ITEM", item_name, Name(s.location))))
        ELSE IF s.owner[item] = NULL
        THEN Failed(CommandEcho(s, Msg("REMOVE_NO_CONTAINER", item_name,
                                       container_name)))
        ELSE ContainerRemove(s, s.owner[item], item)

RemoveExecute(s, item_name, container_name) ==
    LET item == Resolve(s, item_name)
    IN  IF item = NULL
        THEN Failed(CommandEcho(s, Msg("REMOVE_NO_ITEM", item_name, Name(s.location))))
        ELSE IF s.owner[item] = NULL \/ Name(s.owner[item]) # container_name
        THEN Failed(CommandEcho(s, Msg("REMOVE_NO_CONTAINER", item_name,
                                       container_name)))
        ELSE ContainerRemove(s, s.owner[item], item)

OpenExecute(s, container_name) ==
    LET container == Resolve(s, container_name)
    IN  IF container = NULL
        THEN Failed(CommandEcho(s, Msg("OPEN_NO_CONTAINER", container_name,
                                       Name(s.location))))
        ELSE IF ~IsContainer(container)
        THEN Failed(CommandEcho(s, Msg("OPEN_NOT_CONTAINER", container_name, <<>>)))
        ELSE ContainerOpen(s, container)

CloseExecute(s, container_name) ==
    LET container == Resolve(s, container_name)
    IN  IF container = NULL
        THEN Failed(CommandEcho(s, Msg("CLOSE_NO_CONTAINER", container_name,
                                       Name(s.location))))
        ELSE IF ~IsContainer(container)
        THEN Failed(CommandEcho(s, Msg("CLOSE_NOT_CONTAINER", container_name, <<>>)))
        ELSE ContainerClose(s, container)

\* an inventory command that also lists the items inside held containers
InventoryExecuteListsAll(s) ==
    IF Len(s.inventory) >= 1
    THEN CommandEcho(s, Msg("INVENTORY", enumerate_items(NamesOf(s.inventory)), <<>>))
    ELSE CommandEcho(s, Msg("NO_ITEMS", <<>>, <<>>))

InventoryExecute(s) ==
    LET items == SelectSeq(s.inventory, LAMBDA i : s.owner[i] = NULL)
    IN  IF Len(items) >= 1
        THEN CommandEcho(s, Msg("INVENTORY", enumerate_items(NamesOf(items)), <<>>))
        ELSE CommandEcho(s, Msg("NO_ITEMS", <<>>, <<>>))

\* AbstractItem.get_action: the verbs registered by Item.__init__ and
\* Container.__init__
HasAction(i, verb) ==
    \/ verb \in {W_look, W_use}
    \/ IsContainer(i) /\ verb \in {W_open, W_close}

\* command.execute(world, **groupdict)
Execute(s, cmd, m) ==
    CASE cmd = "look room" -> LookRoomExecute(s)
      [] cmd = "look item" -> LookItemExecute(s, m.a)
      [] cmd = "move"      -> MoveExecute(s, m.a)
      [] cmd = "take"      -> TakeExecute(s, m.a)
      [] cmd = "discard"   -> DiscardExecute(s, m.a)
      [] cmd = "put"       -> PutExecute(s, m.a, m.b)
      [] cmd = "remove"    -> RemoveExecute(s, m.a, m.b)
      [] cmd = "open"      -> OpenExecute(s, m.a)
      [] cmd = "Close"     -> CloseExecute(s, m.a)
      [] cmd = "inventory" -> InventoryExecute(s)

(***************************************************************************)
(* The input lines the player types.                                       *)
(***************************************************************************)
Line2(x, y) == x \o <<SP>> \o y
Line4(x, y, z, u) == x \o <<SP>> \o y \o <<SP>> \o z \o <<SP>> \o u

TypedNames == {W_coin, W_box, W_chest}

Lines ==
    { W_look, W_inventory, W_dance, W_take, <<>> }
    \cup { Line2(v, n) : v \in {W_take, W_discard, W_open, W_close, W_look, W_use},
                         n \in TypedNames }
    \cup { Line2(W_take, W_penny), Line2(W_open, W_trunk), Line2(W_take, W_ghost),
           Line2(W_discard, W_ghost), Line2(W_open, W_ghost), Line2(W_dance, W_coin) }
    \cup { Line4(W_put, x, W_in, y) :
              x \in {W_coin, W_box, W_ghost}, y \in {W_box, W_chest} }
    \cup { Line4(W_put, W_coin, W_in, W_coin), Line4(W_put, W_coin, W_in, W_ghost),
           Line4(W_place, W_penny, W_in, Line2(W_the, W_trunk)) }
    \cup { Line4(W_remove, x, W_from, y) :
              x \in {W_coin, W_ghost}, y \in {W_box, W_chest} }
    \cup { Line4(W_remove, W_coin, W_out, Line2(W_of, W_box)),
           Line4(W_remove, W_box, W_from, W_chest) }
    \cup { Line2(W_look, W_penny), Line2(W_look, W_trunk), Line2(W_discard, W_penny),
           Line2(W_close, W_trunk), Line4(W_put, W_coin, W_in, W_trunk),
           Line4(W_put, W_penny, W_in, W_chest),
           Line4(W_remove, W_penny, W_from, W_chest),
           Line4(W_remove, W_coin, W_from, W_trunk) }
    \cup { Line2(v, W_thing) : v \in {W_look, W_take, W_discard} }
    \cup { Line2(W_open, W_case), Line2(W_close, W_case),
           Line4(W_put, W_thing, W_in, W_chest), Line4(W_put, W_coin, W_in, W_case),
           Line4(W_remove, W_thing, W_from, W_chest) }
    \cup { Line2(W_go, d) : d \in {W_north, W_south, W_east, W_sideways, <<"n">>} }
    \cup { Line2(W_move, W_south),
           <<"T","a","k","e"," ","t","h","e"," ","c","o","i","n","!">>,
           Line2(W_throw, Line2(W_away, W_coin)), Line2(W_throw, W_box),
           Line2(W_look, W_around), Line2(W_look, Line2(W_at, Line2(W_the, W_chest))) }

\* the matches of the lines above, computed once
MatchTable == [l \in Lines |-> [c \in {Commands[k] : k \in 1..Len(Commands)} |->
                                  Match(c, l)]]

MatchOf(cmd, input) ==
    IF input \in Lines THEN MatchTable[input][cmd] ELSE Match(cmd, input)

\* Command.match: execute on a match, and say whether the pattern matched
CommandMatch(s, cmd, input) ==
    IF MatchOf(cmd, input).ok
    THEN Execute(Emit(s, ExecEntry(cmd)), cmd, MatchOf(cmd, input))
    ELSE s

RECURSIVE KernelInputSilent(_, _, _)
\* a CommandKernel.input without the fallback message
KernelInputSilent(s, cmds, input) ==
    IF ~Ok(s) \/ cmds = <<>> THEN s
    ELSE IF MatchOf(Head(cmds), input).ok
    THEN CommandMatch(s, Head(cmds), input)
    ELSE KernelInputSilent(CommandMatch(s, Head(cmds), input), Tail(cmds), input)

RECURSIVE KernelInputTriesAll(_, _, _)
\* a CommandKernel.input that does not return at the first match
KernelInputTriesAll(s, cmds, input) ==
    IF ~Ok(s) THEN s
    ELSE IF cmds = <<>>
    THEN KernelEcho(s, Msg("NO_COMMAND", <<>>, <<>>))
    ELSE KernelInputTriesAll(CommandMatch(s, Head(cmds), input), Tail(cmds), input)

RECURSIVE KernelInput(_, _, _)
\* CommandKernel.input: the loop over the commands still to try
KernelInput(s, cmds, input) ==
    IF ~Ok(s) THEN s
    ELSE IF cmds = <<>>
    THEN KernelEcho(s, Msg("NO_COMMAND", <<>>, <<>>))
    ELSE IF MatchOf(Head(cmds), input).ok
    THEN CommandMatch(s, Head(cmds), input)
    ELSE KernelInput(CommandMatch(s, Head(cmds), input), Tail(cmds), input)

(***************************************************************************)
(* World authoring: the state after the world has been constructed.        *)
(***************************************************************************)
Blank ==
    [ room_items  |-> [r \in Rooms |-> <<>>],
      inventory   |-> <<>>,
      location    |-> "hall",
      item_room   |-> [i \in Items |-> NULL],
      item_player |-> [i \in Items |-> NULL],
      owner       |-> [i \in Items |-> NULL],
      con_items   |-> [c \in Containers |-> <<>>],
      opened      |-> [c \in Containers |-> FALSE],
      locked      |-> [c \in Containers |-> FALSE],
      blocked     |-> [p \in Paths |-> FALSE],
      subs        |-> [i \in Items |-> <<>>],
      rooms       |-> <<>>,
      room_world  |-> [r \in Rooms |-> NULL],
      room_subs   |-> [r \in Rooms |-> <<>>],
      path_blocked |-> FALSE,
      callbacks   |-> <<>>,
      log         |-> <<>>,
      err         |-> "",
      fail        |-> FALSE ]

\* Container.__init__(items, opened, locked)
ContainerInit(s, c, items, openedArg, lockedArg) ==
    LET a == ContainerInsert(s, c, items)
    IN  [a EXCEPT !.locked[c] = lockedArg,
                  !.opened[c] = InitOpened(openedArg, lockedArg)]

\* Path.__init__(blocked) by way of Room.add_path
AddPath(s, p, blockedArg) == [s EXCEPT !.blocked[p] = blockedArg]

\* Player.__init__(start_location, inventory)
PlayerInit(s, start, items) == PlayerInsertAll([s EXCEPT !.location = start], items)

\* Event.subscribe / Event.unsubscribe on a room's on_echo
RoomSubscribe(s, r, cb) ==
    IF ~Ok(s) THEN s
    ELSE IF InSeq(cb, s.room_subs[r]) THEN Raise(s, "RuntimeError")
    ELSE [s EXCEPT !.room_subs[r] = Append(@, cb)]

RoomUnsubscribe(s, r, cb) ==
    IF ~Ok(s) THEN s
    ELSE IF InSeq(cb, s.room_subs[r]) THEN [s EXCEPT !.room_subs[r] = RemoveFirst(@, cb)]
    ELSE Raise(s, "RuntimeError")

UnsubscribeWorld(s, r) ==
    IF Ok(s) /\ s.room_world[r] # NULL THEN RoomUnsubscribe(s, r, WorldCb) ELSE s

AssignWorld(s, r, w) == IF Ok(s) THEN [s EXCEPT !.room_world[r] = w] ELSE s

SubscribeWorld(s, r, w) == IF w # NULL THEN RoomSubscribe(s, r, WorldCb) ELSE s

\* Room.world setter
RoomSetWorld(s, r, w) == SubscribeWorld(AssignWorld(UnsubscribeWorld(s, r), r, w), r, w)

WorldRoomsAppend(s, r) == IF Ok(s) THEN [s EXCEPT !.rooms = Append(@, r)] ELSE s
WorldRoomsRemove(s, r) == IF Ok(s) THEN [s EXCEPT !.rooms = RemoveFirst(@, r)] ELSE s

RECURSIVE WorldAddRooms(_, _)
\* AbstractWorld.add_rooms(rooms)
WorldAddRooms(s, rooms) ==
    IF rooms = <<>> \/ ~Ok(s) THEN s
    ELSE IF ~InSeq(Head(rooms), s.rooms)
    THEN WorldAddRooms(WorldRoomsAppend(RoomSetWorld(s, Head(rooms), "world"),
                                        Head(rooms)), Tail(rooms))
    ELSE Raise(s, "RuntimeError")

\* AbstractWorld.remove_room(room)
WorldRemoveRoom(s, r) ==
    IF ~Ok(s) THEN s
    ELSE IF InSeq(r, s.rooms) THEN WorldRoomsRemove(RoomSetWorld(s, r, NULL), r)
    ELSE Raise(s, "RuntimeError")

\* Room.add_path(name, direction, destination, blocked) for the doors of the
\* authored map: a fresh Path takes the place of the one in that direction
RoomAddPath(s, r, direction, blockedArg) ==
    IF ~Ok(s) THEN s
    ELSE IF direction \in DIRECTIONS THEN AddPath(s, <<r, direction>>, blockedArg)
    ELSE Raise(s, "ValueError")

CoinPlaces == {"floor", "box", "chest", "inventory"}

\* the authoring script: the containers with their contents, the rooms with
\* their items and paths, the player, then the world of both rooms
Authored(coinAt, boxOpened, chestOpened, chestLocked, northBlocked) ==
    LET a == ContainerInit(Blank, "box",
                 IF coinAt = "box" THEN <<"coin">> ELSE <<>>, boxOpened, FALSE)
        b == ContainerInit(a, "chest",
                 IF coinAt = "chest" THEN <<"coin">> ELSE <<>>, chestOpened, chestLocked)
        c == RoomAdd(b, "hall",
                 <<"chest", "box">> \o (IF coinAt = "floor" THEN <<"coin">> ELSE <<>>))
        d == AddPath(AddPath(c, <<"hall", W_north>>, northBlocked),
                     <<"lab", W_south>>, FALSE)
    IN  WorldAddRooms(
            PlayerInit(d, "hall", IF coinAt = "inventory" THEN <<"coin">> ELSE <<>>),
            <<"hall", "lab">>)

\* the state record of the current state, with a fresh log
Cur ==
    [ room_items  |-> room_items,
      inventory   |-> inventory,
      location    |-> location,
      item_room   |-> item_room,
      item_player |-> item_player,
      owner       |-> owner,
      con_items   |-> con_items,
      opened      |-> opened,
      locked      |-> locked,
      blocked     |-> blocked,
      subs        |-> subs,
      rooms       |-> world_rooms,
      room_world  |-> room_world,
      room_subs   |-> room_subs,
      path_blocked |-> path_blocked,
      callbacks   |-> callbacks,
      log         |-> <<>>,
      err         |-> "",
      fail        |-> FALSE ]

\* the call o(a) ends in state s, having returned r and left buf in the
\* driver's output stream
Returns(s, o, a, r, buf) ==
    /\ room_items'  = s.room_items
    /\ inventory'   = s.inventory
    /\ location'    = s.location
    /\ item_room'   = s.item_room
    /\ item_player' = s.item_player
    /\ owner'       = s.owner
    /\ con_items'   = s.con_items
    /\ opened'      = s.opened
    /\ locked'      = s.locked
    /\ blocked'     = s.blocked
    /\ subs'        = s.subs
    /\ world_rooms' = s.rooms
    /\ room_world'  = s.room_world
    /\ room_subs'   = s.room_subs
    /\ path_blocked' = s.path_blocked
    /\ callbacks'   = s.callbacks
    /\ log'         = s.log
    /\ err'         = s.err
    /\ fail'        = s.fail
    /\ op'          = o
    /\ arg'         = a
    /\ ret'         = r
    /\ outstream'   = buf

\* a call made without an I/O driver attached, returning None
Becomes(s, o, a) == Returns(s, o, a, NULL, outstream)

Init ==
    \E coinAt \in CoinPlaces, bo, co, cl, nb \in BOOLEAN :
        LET s == Authored(coinAt, bo, co, cl, nb)
        IN  /\ room_items  = s.room_items
            /\ inventory   = s.inventory
            /\ location    = s.location
            /\ item_room   = s.item_room
            /\ item_player = s.item_player
            /\ owner       = s.owner
            /\ con_items   = s.con_items
            /\ opened      = s.opened
            /\ locked      = s.locked
            /\ blocked     = s.blocked
            /\ subs        = s.subs
            /\ world_rooms = s.rooms
            /\ room_world  = s.room_world
            /\ room_subs   = s.room_subs
            /\ path_blocked = s.path_blocked
            /\ callbacks   = s.callbacks
            /\ log         = <<>>
            /\ err         = s.err
            /\ fail        = FALSE
            /\ op          = "prompt"
            /\ arg         = <<>>
            /\ ret         = NULL
            /\ outstream   = <<>>

(***************************************************************************)
(* Steps.  At the prompt the session takes one input line through the      *)
(* kernel, or a script calls a container's lock/unlock or a path's         *)
(* block/unblock/toggle; the call runs to completion in one step.  log,    *)
(* fail, op and arg then describe that call until the session is back at   *)
(* the prompt.  An uncaught exception ends the session.                    *)
(***************************************************************************)
AtPrompt == op = "prompt" /\ err = ""

Input(line) ==
    /\ AtPrompt
    /\ Becomes(KernelInput(Cur, Commands, line), "input", line)

\* Command lists a front end hands to CommandKernel(world, commands).  Each
\* entry is an instance of the named class of command.py; a class may be
\* instantiated more than once (add_commands refuses only the same object).
Registrations ==
    { <<>>,
      <<"open", "open">>,
      <<"take", "look item", "take">>,
      <<"look item", "look room", "look item">>,
      <<"inventory", "take">> }

\* the lines typed into those kernels
KernelLines ==
    { Line2(W_open, W_chest), Line2(W_take, W_coin), Line2(W_look, W_coin),
      W_look, W_inventory, W_dance }

\* CommandKernel(world, cmds).input(world, line)
KernelInputWith(cmds, line) ==
    /\ AtPrompt
    /\ Becomes(KernelInput(Cur, cmds, line), "kernel.input", <<cmds, line>>)

Lock(c) ==
    /\ AtPrompt
    /\ Becomes(ContainerLock(Cur, c), "lock", Name(c))

Unlock(c) ==
    /\ AtPrompt
    /\ Becomes(ContainerUnlock(Cur, c), "unlock", Name(c))

Block(p, echo) ==
    /\ AtPrompt
    /\ Becomes(PathBlock(Cur, p, echo), "block", <<p[2], echo>>)

Unblock(p, echo) ==
    /\ AtPrompt
    /\ Becomes(PathUnblock(Cur, p, echo), "unblock", <<p[2], echo>>)

Toggle(p, echo) ==
    /\ AtPrompt
    /\ Becomes(PathToggle(Cur, p, echo), "toggle", <<p[2], echo>>)

\* the call has returned and its output has been delivered
Prompt ==
    /\ op # "prompt"
    /\ err = ""
    /\ Becomes(Cur, "prompt", <<>>)

\* the paths scripts block and unblock
ScriptedPaths == { <<"hall", W_north>> }

Next ==
    \/ \E line \in Lines : Input(line)
    \/ \E cmds \in Registrations, line \in KernelLines : KernelInputWith(cmds, line)
    \/ \E c \in Containers : Lock(c)
    \/ \E c \in Containers : Unlock(c)
    \/ \E p \in ScriptedPaths, echo \in BOOLEAN : Block(p, echo)
    \/ \E p \in ScriptedPaths, echo \in BOOLEAN : Unblock(p, echo)
    \/ \E p \in ScriptedPaths, echo \in BOOLEAN : Toggle(p, echo)
    \/ Prompt

Spec == Init /\ [][Next]_vars

(***************************************************************************)
(* Direct calls.  A front end drives the world through an IODriver, and    *)
(* the formatting helpers are called with lists of names of any length.    *)
(***************************************************************************)
\* CommandKernel.input(self, world, input) called with the positional
\* arguments args: Python raises TypeError unless both are given
KernelInputCall(s, args) ==
    IF Len(args) # 2 THEN Raise(s, "TypeError")
    ELSE KernelInput(s, Commands, args[2])

IsMessage(e) == e[1] = "msg"

\* IODriver.world_echo, IODriver.kernel_echo: every message the call echoed
\* is appended to the output stream
Captured(s, buf) == buf \o SelectSeq(s.log, IsMessage)

\* IODriver.process: the kernel call
ProcessInput(s, input_str) == KernelInputCall(s, <<input_str>>)

\* IODriver.process: `output` is a copy of the stream; nothing is returned
\* when the kernel call raised
ProcessOutput(s, buf) == IF Ok(s) THEN Captured(s, buf) ELSE NULL

\* IODriver.process, IODriver.flush_output: the stream is emptied after the
\* copy; the statement is not reached when the kernel call raised
FlushOutput(s, buf) == IF Ok(s) THEN <<>> ELSE Captured(s, buf)

Process(line) ==
    /\ AtPrompt
    /\ Returns(ProcessInput(Cur, line), "process", line,
               ProcessOutput(ProcessInput(Cur, line), outstream),
               FlushOutput(ProcessInput(Cur, line), outstream))

\* names of the items being listed
ListedNames == { <<"s","w","o","r","d">>, <<"s","h","i","e","l","d">>,
                 <<"m","a","p">> }

MaxNames == 4

NameLists == UNION { [1..n -> ListedNames] : n \in 0..MaxNames }

EnumerateItems(names) ==
    /\ AtPrompt
    /\ Returns(Cur, "enumerate_items", names, enumerate_items(names), outstream)

\* Container.context()["items"] of a container holding items so named
ContainerContext(names) ==
    /\ AtPrompt
    /\ Returns(Cur, "context", names, ContainerContextItems(names), outstream)

W_key2 == <<"k","e","y","2">>

\* lines a command is given to preprocess
PreprocessInputs ==
    { Line2(W_take, W_key2),
      <<"T","a","k","e"," ","t","h","e"," ","K","E","Y","2","!">>,
      <<"o","p","e","n"," "," ","b","o","x","-","7">>,
      <<"T","a","k","e"," ","t","h","e"," ","c","o","i","n","!">>,
      Line2(W_look, Line2(W_at, Line2(W_the, W_chest))),
      Line4(W_put, W_coin, W_in, Line2(W_the, W_box)),
      <<" ","g","o",","," ","n","o","r","t","h","."," ">>,
      <<"l","o","o","k","\r">>, <<"t","a","k","e","\f","c","o","i","n">> }

\* Command._preprocess(input) of a command that has the stopword list stop
PreprocessCall(input, stop) ==
    /\ AtPrompt
    /\ Returns(Cur, "_preprocess", <<input, stop>>, Preprocess(input, stop), outstream)

\* Player.discard called by a script with any item of the world
PlayerDiscardCall(i) ==
    /\ AtPrompt
    /\ Becomes(PlayerDiscard(Cur, i), "Player.discard", <<PLAYER, i>>)

(***************************************************************************)
(* An event of its own, with callbacks a script has written: "plain" and   *)
(* "last" do nothing to the event, "once" unsubscribes itself when called, *)
(* "ousts" unsubscribes "plain" when called.                               *)
(***************************************************************************)
EventCallbacks == {"plain", "once", "ousts", "last"}

\* the callback that cb unsubscribes when it is called, NULL if none
Unsubscribes(cb) ==
    CASE cb = "once" -> "once"
      [] cb = "ousts" -> "plain"
      [] OTHER -> NULL

CallEntry(cb) == <<"call", cb, <<>>, <<>> >>

\* Event.subscribe
EventSubscribe(s, cb) ==
    IF ~Ok(s) THEN s
    ELSE IF ~InSeq(cb, s.callbacks) THEN [s EXCEPT !.callbacks = Append(@, cb)]
    ELSE Raise(s, "RuntimeError")

\* Event.unsubscribe
EventUnsubscribeCb(s, cb) ==
    IF ~Ok(s) THEN s
    ELSE IF InSeq(cb, s.callbacks) THEN [s EXCEPT !.callbacks = RemoveFirst(@, cb)]
    ELSE Raise(s, "RuntimeError")

\* callback(*args, **kwargs): the call is recorded and the callback runs
Invoke(s, cb) ==
    IF Unsubscribes(cb) = NULL THEN Emit(s, CallEntry(cb))
    ELSE EventUnsubscribeCb(Emit(s, CallEntry(cb)), Unsubscribes(cb))

RECURSIVE TriggerFrom(_, _)
\* Event.trigger: the for loop over self._callbacks, a list iterator that
\* reads the list as it is at each step, at position k
TriggerFrom(s, k) ==
    IF ~Ok(s) \/ k > Len(s.callbacks) THEN s
    ELSE TriggerFrom(Invoke(s, s.callbacks[k]), k + 1)

\* Event.trigger
EventTrigger(s) == TriggerFrom(s, 1)

SubscribeCall(cb) ==
    /\ AtPrompt
    /\ Becomes(EventSubscribe(Cur, cb), "Event.subscribe", cb)

UnsubscribeCall(cb) ==
    /\ AtPrompt
    /\ Becomes(EventUnsubscribeCb(Cur, cb), "Event.unsubscribe", cb)

TriggerCall ==
    /\ AtPrompt
    /\ Becomes(EventTrigger(Cur), "Event.trigger", <<>>)

NextEvent ==
    \/ \E cb \in EventCallbacks : SubscribeCall(cb)
    \/ \E cb \in EventCallbacks : UnsubscribeCall(cb)
    \/ TriggerCall
    \/ Prompt

SpecEvent == Init /\ [][NextEvent]_vars

\* The coin authored as a Key: a script calls its use() while the player
\* carries things about and containers are locked.
Keys == {"coin"}

KeyLines ==
    { Line2(v, n) : v \in {W_take, W_discard}, n \in {W_coin, W_box} }
    \cup { Line2(W_go, W_north), Line2(W_go, W_south) }

KeyUseCall(k, target) ==
    /\ AtPrompt
    /\ Becomes(KeyUse(Cur, k, target), "Key.use", <<k, target>>)

NextKey ==
    \/ \E line \in KeyLines : Input(line)
    \/ \E c \in Containers : Lock(c)
    \/ \E k \in Keys, target \in Containers \cup {NULL} : KeyUseCall(k, target)
    \/ Prompt

SpecKey == Init /\ [][NextKey]_vars

\* block, unblock and toggle called on the path object of path.py
PathPyBlockCall(echo) ==
    /\ AtPrompt
    /\ Becomes(PathPyBlock(Cur, echo), "Path.block", <<PathPy[2], echo>>)

PathPyUnblockCall(echo) ==
    /\ AtPrompt
    /\ Becomes(PathPyUnblock(Cur, echo), "Path.unblock", <<PathPy[2], echo>>)

PathPyToggleCall(echo) ==
    /\ AtPrompt
    /\ Becomes(PathPyToggle(Cur, echo), "Path.toggle", <<PathPy[2], echo>>)

\* a script that works the paths of either class
NextPath ==
    \/ \E p \in ScriptedPaths, echo \in BOOLEAN : Block(p, echo)
    \/ \E p \in ScriptedPaths, echo \in BOOLEAN : Unblock(p, echo)
    \/ \E p \in ScriptedPaths, echo \in BOOLEAN : Toggle(p, echo)
    \/ \E echo \in BOOLEAN : PathPyBlockCall(echo)
    \/ \E echo \in BOOLEAN : PathPyUnblockCall(echo)
    \/ \E echo \in BOOLEAN : PathPyToggleCall(echo)
    \/ Prompt

SpecPath == Init /\ [][NextPath]_vars

NextCalls ==
    \/ \E line \in Lines : Process(line)
    \/ \E i \in Items : PlayerDiscardCall(i)
    \/ \E input \in PreprocessInputs, stop \in {STOPWORDS, CUSTOM_STOPWORDS} :
          PreprocessCall(input, stop)
    \/ \E names \in NameLists : EnumerateItems(names)
    \/ \E names \in NameLists : ContainerContext(names)
    \/ Prompt

SpecCalls == Init /\ [][NextCalls]_vars

(***************************************************************************)
(* Authoring calls.  A script edits the world directly: it removes an item *)
(* from a room, adds rooms to the world or removes one, unsubscribes a     *)
(* callback from an item's on_echo, or adds a path.  A call that raises    *)
(* ends the script.                                                        *)
(***************************************************************************)
RoomRemoveCall(r, i) ==
    /\ AtPrompt
    /\ Becomes(RoomRemove(Cur, r, i), "Room.remove", <<r, i>>)

AddRooms(rooms) ==
    /\ AtPrompt
    /\ Becomes(WorldAddRooms(Cur, rooms), "add_rooms", rooms)

RemoveRoom(r) ==
    /\ AtPrompt
    /\ Becomes(WorldRemoveRoom(Cur, r), "remove_room", r)

EventUnsubscribe(i, cb) ==
    /\ AtPrompt
    /\ Becomes(Unsubscribe(Cur, i, cb), "unsubscribe", <<i, cb>>)

AddPathCall(r, direction, blockedArg) ==
    /\ AtPrompt
    /\ Becomes(RoomAddPath(Cur, r, direction, blockedArg), "add_path",
               <<r, direction>>)

RoomAddCall(r, i) ==
    /\ AtPrompt
    /\ Becomes(RoomAdd(Cur, r, <<i>>), "Room.add", <<r, i>>)

MaxInventory == 2

\* Player._insert, as Player.__init__ calls it for a starting inventory
PlayerInsertCall(i) ==
    /\ AtPrompt
    /\ Len(inventory) < MaxInventory
    /\ Becomes(PlayerInsert(Cur, i), "Player._insert", <<PLAYER, i>>)

\* Container._insert, as Container.__init__ calls it for the items given
ContainerInsertCall(c, i) ==
    /\ AtPrompt
    /\ Becomes(ContainerInsert(Cur, c, <<i>>), "Container._insert", <<c, i>>)

\* the items a script puts into containers
Insertable == { i \in Items : Containable(i) }

\* the lists of rooms a script passes to add_rooms
RoomLists == { <<r>> : r \in Rooms } \cup { <<r, q>> : r, q \in Rooms }

\* the directions a script passes to add_path: the doors of the map and a
\* word that is not a direction
PathArgs == Paths \cup { <<r, W_sideways>> : r \in Rooms }

Callbacks == { RoomCb(r) : r \in Rooms } \cup { PlayerCb }

NextScript ==
    \/ \E r \in Rooms, i \in Items : RoomRemoveCall(r, i)
    \/ \E rooms \in RoomLists : AddRooms(rooms)
    \/ \E r \in Rooms : RemoveRoom(r)
    \/ \E i \in Items, cb \in Callbacks : EventUnsubscribe(i, cb)
    \/ \E p \in PathArgs, b \in BOOLEAN : AddPathCall(p[1], p[2], b)
    \/ Prompt

SpecScript == Init /\ [][NextScript]_vars

\* a script that only adds: items to rooms, to the inventory, to containers
NextAdd ==
    \/ \E r \in Rooms, i \in Items : RoomAddCall(r, i)
    \/ \E i \in Items : PlayerInsertCall(i)
    \/ \E c \in Containers, i \in Insertable : ContainerInsertCall(c, i)
    \/ Prompt

SpecAdd == Init /\ [][NextAdd]_vars

(***************************************************************************)
(* Vocabulary of the properties.                                           *)
(***************************************************************************)
RoomsHolding(i) == { r \in Rooms : InSeq(i, room_items[r]) }
InInventory(i) == InSeq(i, inventory)

IsMsg(e) == e[1] = "msg"
IsEvent(e) == e[1] = "event"
IsExec(e) == e[1] = "exec"

HasEntry(l, e) == \E k \in 1..Len(l) : l[k] = e
HasKey(l, key) == \E k \in 1..Len(l) : IsMsg(l[k]) /\ l[k][2] = key
HasEvent(l, ev, c) == HasEntry(l, EventEntry(ev, Name(c)))

\* every e1 of the log comes before every e2, and both are there
Before(l, e1, e2) ==
    /\ HasEntry(l, e1)
    /\ HasEntry(l, e2)
    /\ \A i, j \in 1..Len(l) : l[i] = e1 /\ l[j] = e2 => i < j

\* the names only item i answers to
OwnNames(i) ==
    { n \in {Name(i)} \cup Synonyms(i) :
         \A j \in Items \ {i} : n \notin {Name(j)} \cup Synonyms(j) }

TakeLine(i) == { Line2(W_take, n) : n \in OwnNames(i) }

(***************************************************************************)
(* C1.                                                                     *)
(***************************************************************************)
InOneRoom(i) ==
    /\ \E r \in Rooms :
          /\ RoomsHolding(i) = {r}
          /\ Count(room_items[r], i) = 1
          /\ item_room[i] = r
    /\ ~InInventory(i)
    /\ item_player[i] = NULL

InInventoryOnly(i) ==
    /\ RoomsHolding(i) = {}
    /\ Count(inventory, i) = 1
    /\ item_player[i] = PLAYER
    /\ item_room[i] = NULL

\* C1: every item is in exactly one place: in exactly one room's list, with
\* its room that room and its player null, or in the inventory, with its
\* player the player and its room null.
C1_SingleLocation == \A i \in Items : InOneRoom(i) \/ InInventoryOnly(i)

(***************************************************************************)
(* C2.                                                                     *)
(***************************************************************************)
\* C2: every item with an owner is in the owner's list and has the owner's
\* room and player; every member of a container's list has that container
\* as owner.
C2_Containment ==
    /\ \A i \in Items :
          owner[i] # NULL =>
              /\ InSeq(i, con_items[owner[i]])
              /\ item_room[i] = item_room[owner[i]]
              /\ item_player[i] = item_player[owner[i]]
    /\ \A c \in Containers :
          \A k \in 1..Len(con_items[c]) : owner[con_items[c][k]] = c

(***************************************************************************)
(* C3.                                                                     *)
(***************************************************************************)
\* C3: every item of the inventory has the player as player and no room,
\* and the inventory holds no item twice.
C3_Inventory ==
    /\ \A k \in 1..Len(inventory) :
          /\ item_player[inventory[k]] = PLAYER
          /\ item_room[inventory[k]] = NULL
    /\ NoDup(inventory)

\* a container has just been taken with the item that is inside it
C3_Witness ==
    /\ op = "input"
    /\ HasEvent(log, "on_take_item", "box")
    /\ inventory = <<"box", "coin">>
    /\ owner["coin"] = "box"

(***************************************************************************)
(* C4.                                                                     *)
(***************************************************************************)
\* item i is inside container c, which is open, unlocked and in the room
\* the player is in
InsideOpenHere(i, c) ==
    /\ Takeable(i)
    /\ owner[i] = c
    /\ InSeq(i, con_items[c])
    /\ opened[c]
    /\ ~locked[c]
    /\ item_room[c] = location
    /\ InSeq(c, room_items[location])

TakenOut(i, c) ==
    /\ owner'[i] = NULL
    /\ InSeq(i, inventory')
    /\ \A r \in Rooms : ~InSeq(i, room_items'[r])
    /\ ~InSeq(i, con_items'[c])

\* C4: a take of a takeable item inside an unlocked, open container of the
\* current room leaves the item with no owner, in the inventory, in no
\* room's list and out of the container's list.
C4_TakeFromContainer ==
    [][ \A i \in Items, c \in Containers :
          (InsideOpenHere(i, c) /\ op' = "input" /\ arg' \in TakeLine(i))
              => TakenOut(i, c) ]_vars

(***************************************************************************)
(* C5.                                                                     *)
(***************************************************************************)
PutLine(i, c) == Line4(W_put, Name(i), W_in, Name(c))
RemoveLine(i, c) == Line4(W_remove, Name(i), W_from, Name(c))

\* the state after "put i in c"
AfterPut(i, c) == KernelInput(Cur, Commands, PutLine(i, c))

\* the state after "put i in c" followed by "remove i from c"
RoundTrip(i, c) == KernelInput(AfterPut(i, c), Commands, RemoveLine(i, c))

\* i and c are what the two names resolve to, i is containable and has no
\* owner, c is open and unlocked
CanRoundTrip(i, c) ==
    /\ AtPrompt
    /\ Resolve(Cur, Name(i)) = i
    /\ Resolve(Cur, Name(c)) = c
    /\ Containable(i)
    /\ owner[i] = NULL
    /\ opened[c]
    /\ ~locked[c]

\* the item is in the list of the room the player is in, with no owner,
\* and the container's list is what it was
BackInRoom(r, i, c) ==
    /\ InSeq(i, r.room_items[r.location])
    /\ r.owner[i] = NULL
    /\ r.con_items[c] = con_items[c]

\* C5 as stated: put followed by remove leaves the item in the room's list
\* with no owner and the container's list as before, wherever the item and
\* the container are.
C5_RoundTripAnywhere ==
    \A i \in Items, c \in Containers :
        CanRoundTrip(i, c) => BackInRoom(RoundTrip(i, c), i, c)

\* C5: put followed by remove, with the container in the room the player
\* is in, leaves the item in that room's list with no owner and the
\* container's list as before, whether the item was in the room or in the
\* inventory.
C5_RoundTrip ==
    \A i \in Items, c \in Containers :
        (CanRoundTrip(i, c) /\ InSeq(c, room_items[location]))
            => BackInRoom(RoundTrip(i, c), i, c)

\* the item is in the inventory, the container in the room, and both
\* commands succeed
C5_Witness ==
    /\ CanRoundTrip("coin", "chest")
    /\ InInventory("coin")
    /\ InSeq("chest", room_items[location])
    /\ HasKey(AfterPut("coin", "chest").log, "ADD")
    /\ AfterPut("coin", "chest").owner["coin"] = "chest"
    /\ HasKey(RoundTrip("coin", "chest").log, "REMOVE")

(***************************************************************************)
(* C6, C7.                                                                 *)
(***************************************************************************)
MatchingIn(cmds, l) == { k \in 1..Len(cmds) : MatchOf(cmds[k], l).ok }

Matching(l) == MatchingIn(Commands, l)

NO_COMMAND == Msg("NO_COMMAND", <<>>, <<>>)

\* C6: an input that matches no command's pattern yields exactly the one
\* fallback message, executes no command and changes nothing of the world;
\* an input that matches some command yields no fallback message.
C6_Fallback ==
    [][ op' = "input" =>
          IF Matching(arg') = {}
          THEN log' = <<NO_COMMAND>> /\ UNCHANGED world
          ELSE ~HasEntry(log', NO_COMMAND) ]_vars

C6_Witness ==
    /\ op = "input"
    /\ arg = W_dance
    /\ log = <<NO_COMMAND>>

\* the commands of the kernel that received the line, and the line
Registered == IF op = "input" THEN Commands ELSE arg[1]
Typed == IF op = "input" THEN arg ELSE arg[2]

\* the earliest registered command whose pattern matches
FirstMatch(cmds, l) ==
    CHOOSE k \in MatchingIn(cmds, l) : \A h \in MatchingIn(cmds, l) : k <= h

\* C7: exactly the earliest registered matching command is executed, once,
\* and no other command is.
C7_FirstMatchWins ==
    op \in {"input", "kernel.input"} =>
        IF MatchingIn(Registered, Typed) = {}
        THEN SelectSeq(log, IsExec) = <<>>
        ELSE SelectSeq(log, IsExec)
                = <<ExecEntry(Registered[FirstMatch(Registered, Typed)])>>

\* "open chest" typed into a kernel holding two open commands matches both,
\* and the chest has been opened by one execution
C7_Witness ==
    /\ op = "kernel.input"
    /\ arg = << <<"open", "open">>, Line2(W_open, W_chest) >>
    /\ Cardinality(MatchingIn(Registered, Typed)) = 2
    /\ SelectSeq(log, IsExec) = <<ExecEntry("open")>>
    /\ HasEvent(log, "on_open", "chest")
    /\ ~HasKey(log, "ALREADY_OPEN")

(***************************************************************************)
(* C8.                                                                     *)
(***************************************************************************)
LockedIsClosed == \A c \in Containers : locked[c] => ~opened[c]

\* what a step may do to the opened and locked flags of container c
StateMachineStep(c) ==
    /\ HasEvent(log', "on_open", c) =>
          /\ ~opened[c] /\ opened'[c] /\ ~locked'[c]
          /\ locked[c] => Before(log', EventEntry("on_unlock", Name(c)),
                                       EventEntry("on_open", Name(c)))
    /\ HasEvent(log', "on_close", c) => opened[c] /\ ~opened'[c]
    /\ HasEvent(log', "on_unlock", c) => locked[c] /\ ~locked'[c]
    /\ HasEvent(log', "on_lock", c) =>
          /\ ~locked[c] /\ locked'[c]
          /\ opened[c] =>
                /\ Before(log', Msg("CLOSE", Name(c), <<>>),
                                EventEntry("on_close", Name(c)))
                /\ Before(log', EventEntry("on_close", Name(c)),
                                Msg("LOCK", Name(c), <<>>))
                /\ Before(log', Msg("LOCK", Name(c), <<>>),
                                EventEntry("on_lock", Name(c)))
    /\ opened'[c] # opened[c] =>
          HasEvent(log', "on_open", c) \/ HasEvent(log', "on_close", c)
    /\ locked'[c] # locked[c] =>
          HasEvent(log', "on_lock", c) \/ HasEvent(log', "on_unlock", c)

\* C8: a locked container is closed in every state, the initial ones
\* included; a container opens only from closed and unlocked, closes only
\* from open, unlocks only from locked, and locks only from unlocked,
\* closing first (close message, on_close, lock message, on_lock) when open.
C8_StateMachine ==
    /\ []LockedIsClosed
    /\ [][ \A c \in Containers : StateMachineStep(c) ]_vars

\* an open container has just been locked
C8_Witness ==
    /\ op = "lock"
    /\ arg = Name("box")
    /\ locked["box"] /\ ~opened["box"]
    /\ log = << Msg("CLOSE", Name("box"), <<>>), EventEntry("on_close", Name("box")),
                Msg("LOCK", Name("box"), <<>>), EventEntry("on_lock", Name("box")) >>

(***************************************************************************)
(* C9.                                                                     *)
(***************************************************************************)
\* the input is a put whose names resolve to item i and container c
PutAttempt(l, i, c) ==
    /\ MatchOf("put", l).ok
    /\ Resolve(Cur, MatchOf("put", l).a) = i
    /\ Resolve(Cur, MatchOf("put", l).b) = c

\* the input is a remove of item i, which is in container c, from c
RemoveAttempt(l, i, c) ==
    /\ MatchOf("remove", l).ok
    /\ Resolve(Cur, MatchOf("remove", l).a) = i
    /\ owner[i] = c
    /\ InSeq(i, con_items[c])
    /\ MatchOf("remove", l).b = Name(c)

ListStep(c) ==
    /\ con_items'[c] # con_items[c] =>
          /\ ~locked[c] /\ ~locked'[c] /\ opened'[c]
          /\ opened[c] \/ Before(log', EventEntry("on_open", Name(c)),
                                       EventEntry("on_remove_item", Name(c)))
    /\ \A i \in Items :
          (op' = "input" /\ PutAttempt(arg', i, c) /\ (locked[c] \/ ~opened[c])) =>
              /\ con_items'[c] = con_items[c]
              /\ fail'
              /\ (owner[i] = NULL /\ Containable(i)) =>
                    IF locked[c] THEN HasKey(log', "ADD_LOCKED")
                    ELSE HasKey(log', "CLOSED")
    /\ \A i \in Items :
          (op' = "input" /\ RemoveAttempt(arg', i, c) /\ (locked[c] \/ ~opened[c])) =>
              /\ con_items'[c] = con_items[c]
              /\ fail'
              /\ IF locked[c] THEN HasKey(log', "REMOVE_LOCKED")
                 ELSE HasKey(log', "CLOSED")

\* C9: a container's list changes only in a step in which the container is
\* unlocked and open (opened by the step itself when a take finds it
\* closed); a put or remove on a locked or closed container leaves the list
\* as it was and reports that it is locked or closed.
C9_ListChanges == [][ \A c \in Containers : ListStep(c) ]_vars

\* a put into the locked chest has just been refused
C9_Witness ==
    /\ op = "input"
    /\ arg = PutLine("coin", "chest")
    /\ locked["chest"]
    /\ owner["coin"] = NULL
    /\ con_items["chest"] = <<>>
    /\ HasKey(log, "ADD_LOCKED")

(***************************************************************************)
(* C10.                                                                    *)
(***************************************************************************)
\* C10: a call that takes a failure branch leaves the room lists, the
\* inventory, the owners, the containers' lists and flags, the paths'
\* blocked flags and the player's location as they were, and triggers no
\* domain event.
C10_NoPartialMutation ==
    [][ fail' =>
          /\ UNCHANGED << room_items, inventory, owner, con_items, opened,
                          locked, blocked, location, item_room, item_player >>
          /\ SelectSeq(log', IsEvent) = <<>> ]_vars

\* a move through a blocked path has just been refused
C10_Witness ==
    /\ op = "input"
    /\ arg = Line2(W_go, W_north)
    /\ fail
    /\ blocked[<<"hall", W_north>>]
    /\ location = "hall"
    /\ HasKey(log, "PATH_BLOCKED")

(***************************************************************************)
(* C11.                                                                    *)
(***************************************************************************)
\* the confirmation message of the transition a domain event belongs to
ConfirmKey(ev) ==
    CASE ev = "on_open"         -> "OPEN"
      [] ev = "on_close"        -> "CLOSE"
      [] ev = "on_lock"         -> "LOCK"
      [] ev = "on_unlock"       -> "UNLOCK"
      [] ev = "on_add_item"     -> "ADD"
      [] ev = "on_remove_item"  -> "REMOVE"
      [] ev = "on_block"        -> "BLOCK"
      [] ev = "on_unblock"      -> "UNBLOCK"
      [] ev = "on_take_item"    -> "TAKE"
      [] ev = "on_discard_item" -> "DISCARD"
      [] ev = "on_move"         -> "ENTER"
      [] OTHER                  -> "none"

\* the k-th entry of the log is a transition's event and its confirmation
\* message was echoed before it
ConfirmedBefore(l, k) ==
    (IsEvent(l[k]) /\ ConfirmKey(l[k][2]) # "none") =>
        \E j \in 1..(k - 1) : IsMsg(l[j]) /\ l[j][2] = ConfirmKey(l[k][2])

\* the call was a block, unblock or toggle asked to stay silent (echo=False)
Silenced == op \in {"block", "unblock", "toggle"} /\ ~arg[2]

\* C11: in every call, each domain event of a successful transition comes
\* after the transition's confirmation message (which comes after the
\* mutation); a path told not to echo has no confirmation.
C11_MessageBeforeEvent ==
    ~Silenced => \A k \in 1..Len(log) : ConfirmedBefore(log, k)

\* the same for every transition but discard
C11_ExceptDiscard ==
    ~Silenced => \A k \in 1..Len(log) :
        log[k][2] # "on_discard_item" => ConfirmedBefore(log, k)

(***************************************************************************)
(* C12.                                                                    *)
(***************************************************************************)
\* the one relay that is to be subscribed to the item's on_echo
ParentRelay(i) ==
    IF item_room[i] # NULL THEN <<RoomCb(item_room[i])>> ELSE <<PlayerCb>>

\* C12: every item has a room or a player, never both, exactly the relay
\* of that parent is subscribed to its on_echo, and no call has raised.
C12_EchoSubscription ==
    /\ err = ""
    /\ \A i \in Items :
          /\ (item_room[i] # NULL) # (item_player[i] # NULL)
          /\ subs[i] = ParentRelay(i)

\* a container has been taken and then discarded in the other room with
\* the item inside it: both are subscribed to by that room alone
C12_Witness ==
    /\ op = "input"
    /\ HasEvent(log, "on_discard_item", "box")
    /\ location = "lab"
    /\ owner["coin"] = "box"
    /\ subs["coin"] = <<RoomCb("lab")>>
    /\ subs["box"] = <<RoomCb("lab")>>

(***************************************************************************)
(* C13.                                                                    *)
(***************************************************************************)
\* the state a call left, seen by the next call: nothing logged yet
Fresh(s) == [s EXCEPT !.log = <<>>, !.fail = FALSE]

OpenedOnce(c) == ContainerOpen(Cur, c)
OpenedTwice(c) == ContainerOpen(Fresh(OpenedOnce(c)), c)

\* C13: open called twice on a closed, unlocked container: the first call
\* opens it and triggers on_open once; the second emits the already-open
\* message alone, triggers nothing and changes nothing.
C13_OpenIdempotent ==
    \A c \in Containers :
        (AtPrompt /\ ~opened[c] /\ ~locked[c]) =>
            /\ OpenedOnce(c).opened[c]
            /\ Count(OpenedOnce(c).log, EventEntry("on_open", Name(c))) = 1
            /\ OpenedTwice(c).log = << Msg("ALREADY_OPEN", Name(c), <<>>) >>
            /\ OpenedTwice(c).opened[c]
            /\ Fresh(OpenedTwice(c)) = Fresh(OpenedOnce(c))

\* the box is closed and unlocked, and the first open opens it
C13_Witness ==
    /\ AtPrompt
    /\ ~opened["box"] /\ ~locked["box"]
    /\ con_items["box"] = <<"coin">>
    /\ HasEvent(OpenedOnce("box").log, "on_open", "box")
    /\ HasKey(OpenedTwice("box").log, "ALREADY_OPEN")

(***************************************************************************)
(* C14.                                                                    *)
(***************************************************************************)
\* the direction a move command's word stands for (NULL if none)
Canon(w) == IF w \in DIRECTIONS THEN w ELSE DIRECTION_SYNONYMS(w)

\* the input is a move whose direction has a path from the current room
MoveAlong(l, p) ==
    /\ MatchOf("move", l).ok
    /\ Canon(MatchOf("move", l).a) # NULL
    /\ p = GetPath(location, Canon(MatchOf("move", l).a))
    /\ p # NULL

\* C14: a move along a blocked path leaves the location as it was, emits
\* the path-blocked message and no other, and triggers no event (no
\* on_exit, on_enter or on_move).
C14_BlockedMove ==
    [][ \A p \in Paths :
          (op' = "input" /\ MoveAlong(arg', p) /\ blocked[p]) =>
              /\ location' = location
              /\ log' = << ExecEntry("move"), Msg("PATH_BLOCKED", p[2], <<>>) >> ]_vars

\* "go n" has just been refused in the hall
C14_Witness ==
    /\ op = "input"
    /\ arg = Line2(W_go, <<"n">>)
    /\ location = "hall"
    /\ blocked[<<"hall", W_north>>]
    /\ log = << ExecEntry("move"), Msg("PATH_BLOCKED", W_north, <<>>) >>

(***************************************************************************)
(* C15.                                                                    *)
(***************************************************************************)
\* what a move from room r along path p logs: on_exit of r, the entry
\* message of the destination, its look (description, paths, items,
\* on_look), on_enter, on_move
MoveLog(r, p, itemsLine) ==
    << ExecEntry("move"),
       EventEntry("on_exit", Name(r)),
       Msg("ENTER", Name(PathDest(p)), <<>>),
       Msg("ROOM_DESCRIPTION", Name(PathDest(p)), <<>>),
       Msg("LOOK_PATHS", Name(PathDest(p)), <<>>),
       itemsLine,
       EventEntry("on_look", Name(PathDest(p))),
       EventEntry("on_enter", Name(PathDest(p))),
       EventEntry("on_move", p[2]) >>

\* C15: a move along an unblocked path triggers the old room's on_exit,
\* puts the player in the path's destination, runs the destination's enter
\* (entry message, description, paths, items, on_look, on_enter), then
\* triggers on_move; no item changes room, inventory or container.
C15_UnblockedMove ==
    [][ \A p \in Paths :
          (op' = "input" /\ MoveAlong(arg', p) /\ ~blocked[p]) =>
              /\ location' = PathDest(p)
              /\ Len(log') = 9
              /\ IsMsg(log'[6])
              /\ log'[6][2] \in {"LOOK_ITEMS", "LOOK_EMPTY"}
              /\ log' = MoveLog(location, p, log'[6])
              /\ UNCHANGED << room_items, inventory, item_room, item_player,
                              owner, con_items, opened, locked, blocked >> ]_vars

\* the player has just gone from the hall to the lab
C15_Witness ==
    /\ op = "input"
    /\ arg = Line2(W_go, W_north)
    /\ location = "lab"
    /\ log = MoveLog("hall", <<"hall", W_north>>,
                     Msg("LOOK_EMPTY", Name("lab"), <<>>))

(***************************************************************************)
(* C16: listing names                                                      *)
(***************************************************************************)
RECURSIVE CommaJoined(_)
\* each name followed by a comma and a space
CommaJoined(names) ==
    IF names = <<>> THEN <<>>
    ELSE Head(names) \o <<",", SP>> \o CommaJoined(Tail(names))

\* the listing the documentation describes
Listed(names) ==
    IF Len(names) = 0 THEN <<>>
    ELSE IF Len(names) = 1 THEN names[1]
    ELSE IF Len(names) = 2 THEN names[1] \o <<SP>> \o W_and \o <<SP>> \o names[2]
    ELSE CommaJoined(SubSeq(names, 1, Len(names) - 1))
         \o W_and \o <<SP>> \o names[Len(names)]

ListingCall == op \in {"enumerate_items", "context"}

\* C16: a listing of names is the empty string for no name, the name for
\* one, "a and b" for two, and for three or more the names joined by commas
\* with a comma and "and" before the last: "sword, shield, and map"
C16_Listing == ListingCall => ret = Listed(arg)

\* what the code does for every length: the last two names are joined by
\* " and " alone, the earlier ones are each followed by ", "
C16_ListingUpToTwo == ListingCall /\ Len(arg) <= 2 => ret = Listed(arg)

C16_Witness ==
    /\ op = "enumerate_items"
    /\ Len(arg) = 3
    /\ ret = arg[1] \o <<",", SP>> \o arg[2] \o <<SP>> \o W_and \o <<SP>> \o arg[3]
    /\ ret # Listed(arg)

(***************************************************************************)
(* C17: the I/O cycle                                                      *)
(***************************************************************************)
\* the messages a kernel given the line would echo, in emission order
Echoed(line) == SelectSeq(KernelInput(Cur, Commands, line).log, IsMessage)

ProcessStep == AtPrompt /\ op' = "process"

\* C17: IODriver.process(input) feeds the input to the kernel, returns the
\* strings the world and the kernel echoed, in emission order, and leaves
\* the driver's buffer empty
C17_ProcessCycle ==
    [][ProcessStep => /\ err' = ""
                      /\ ret' = Echoed(arg')
                      /\ outstream' = <<>>]_vars

\* what the code does: every call of process raises TypeError out of the
\* kernel call, returns nothing and changes nothing
C17_ProcessRaises ==
    [][ProcessStep => /\ err' = "TypeError"
                      /\ ret' = NULL
                      /\ log' = <<>>
                      /\ UNCHANGED <<world, outstream>>]_vars

C17_Witness == op = "process" /\ err = "TypeError" /\ arg = W_look

(***************************************************************************)
(* C18: which failure a put reports                                        *)
(***************************************************************************)
\* the first failure of putting item into con, in the documented order
DocumentedReason(item, con) ==
    IF item = NULL THEN "no item"
    ELSE IF con = NULL THEN "no container"
    ELSE IF ~IsContainer(con) THEN "not a container"
    ELSE IF locked[con] THEN "locked"
    ELSE IF ~opened[con] THEN "closed"
    ELSE IF ~Containable(item) THEN "not containable"
    ELSE IF owner[item] \notin {NULL, con} THEN "owned elsewhere"
    ELSE IF owner[item] = con \/ InSeq(item, con_items[con]) THEN "already inside"
    ELSE "none"

\* the first failure in the order the code tests them
TestedReason(item, con) ==
    IF item = NULL THEN "no item"
    ELSE IF con = NULL THEN "no container"
    ELSE IF ~IsContainer(con) THEN "not a container"
    ELSE IF owner[item] \notin {NULL, con} THEN "owned elsewhere"
    ELSE IF owner[item] = con \/ InSeq(item, con_items[con]) THEN "already inside"
    ELSE IF ~Containable(item) THEN "not containable"
    ELSE IF locked[con] THEN "locked"
    ELSE IF ~opened[con] THEN "closed"
    ELSE "none"

\* the failure a message of a put reports
ReasonOf(m, con) ==
    CASE m[2] = "PUT_NO_ITEM"          -> "no item"
      [] m[2] = "PUT_NO_CONTAINER"     -> "no container"
      [] m[2] = "PUT_NOT_CONTAINER"    -> "not a container"
      [] m[2] = "ADD_LOCKED"           -> "locked"
      [] m[2] = "CLOSED"               -> "closed"
      [] m[2] = "ADD_NOT_CONTAINABLE"  -> "not containable"
      [] m[2] = "ADD_CONTAINED"        -> IF m[4] = Name(con) THEN "already inside"
                                          ELSE "owned elsewhere"
      [] m[2] = "ALREADY_ADDED"        -> "already inside"
      [] OTHER                         -> "none"

\* the step is an input line executed by the put command
PutStep == AtPrompt /\ op' = "input" /\ log' # <<>> /\ log'[1] = ExecEntry("put")

PutItem == Resolve(Cur, MatchOf("put", arg').a)
PutContainer == Resolve(Cur, MatchOf("put", arg').b)

\* the put reports the one reason and changes nothing
ReportsOnly(reason) ==
    /\ Len(SelectSeq(log', IsMsg)) = 1
    /\ ReasonOf(SelectSeq(log', IsMsg)[1], PutContainer) = reason
    /\ \A k \in 1..Len(log') : ~IsEvent(log'[k])
    /\ UNCHANGED world

\* C18: a put that fails reports the first reason that applies in the order
\* item not found, container not found, target not a container, container
\* locked, container closed, item not containable, item owned by another
\* container, item already inside; one message, nothing changes
C18_PutFailFast ==
    [][PutStep /\ DocumentedReason(PutItem, PutContainer) # "none"
          => ReportsOnly(DocumentedReason(PutItem, PutContainer))]_vars

\* what the code does: ownership and containability are tested before the
\* lock and the lid
C18_PutTestedOrder ==
    [][PutStep /\ TestedReason(PutItem, PutContainer) # "none"
          => ReportsOnly(TestedReason(PutItem, PutContainer))]_vars

\* a put of the box into the locked chest was refused for the box
C18_Witness ==
    /\ op = "input" /\ arg = PutLine("box", "chest")
    /\ locked["chest"]
    /\ HasKey(log, "ADD_NOT_CONTAINABLE")

(***************************************************************************)
(* C19: names and synonyms                                                 *)
(***************************************************************************)
\* pairs of lines that differ in one name only: the entity's name in the
\* first, a synonym of it in the second
SynonymPairs ==
    { <<Line2(v, W_coin), Line2(v, W_penny)>> : v \in {W_look, W_take, W_discard} }
    \cup { <<Line2(v, W_chest), Line2(v, W_trunk)>> : v \in {W_look, W_open, W_close} }
    \cup { <<Line4(W_put, W_coin, W_in, W_chest), Line4(W_put, W_penny, W_in, W_chest)>>,
           <<Line4(W_put, W_coin, W_in, W_chest), Line4(W_put, W_coin, W_in, W_trunk)>>,
           <<Line4(W_remove, W_coin, W_from, W_chest),
             Line4(W_remove, W_penny, W_from, W_chest)>> }

\* the pair that names the container of a remove
RemoveFromSynonym ==
    <<Line4(W_remove, W_coin, W_from, W_chest), Line4(W_remove, W_coin, W_from, W_trunk)>>

\* what a call did: the world it left, whether it failed, and the kinds and
\* keys of what it emitted (a message may quote the name as typed)
Effect(s) ==
    << s.room_items, s.inventory, s.location, s.item_room, s.item_player,
       s.owner, s.con_items, s.opened, s.locked, s.blocked, s.subs, s.err,
       s.fail, [k \in 1..Len(s.log) |-> <<s.log[k][1], s.log[k][2]>>] >>

SameEffect(pair) ==
    Effect(KernelInput(Cur, Commands, pair[1]))
        = Effect(KernelInput(Cur, Commands, pair[2]))

\* C19: look item, take, discard, put, remove, open and close do the same
\* whether an item or container is given by its name or by a synonym,
\* the container of "remove <item> from <container>" included
C19_Synonyms ==
    AtPrompt => \A pair \in SynonymPairs \cup {RemoveFromSynonym} : SameEffect(pair)

\* what the code does: every name is resolved through its synonyms except
\* the container of a remove, which is compared with the owner's name
C19_SynonymsResolved == AtPrompt => \A pair \in SynonymPairs : SameEffect(pair)

C19_RemoveByNameOnly ==
    AtPrompt /\ owner["coin"] = "chest" /\ RoomGet(Cur, location, W_coin) = "coin"
        => HasKey(KernelInput(Cur, Commands, RemoveFromSynonym[2]).log,
                  "REMOVE_NO_CONTAINER")

\* the coin was in the chest and "remove coin from trunk" left it there
C19_Witness ==
    /\ op = "input" /\ arg = RemoveFromSynonym[2]
    /\ owner["coin"] = "chest"
    /\ HasKey(log, "REMOVE_NO_CONTAINER")

(***************************************************************************)
(* C20: a name shared by an item of the room and an item of the inventory  *)
(***************************************************************************)
SharedNames == {W_thing, W_case}

RoomItem(nm) == RoomGet(Cur, location, nm)
HeldItem(nm) == PlayerGet(Cur, nm)

\* an item of the current room and another item, of the inventory, both
\* answer to nm
Overlap(nm) ==
    /\ RoomItem(nm) # NULL
    /\ HeldItem(nm) # NULL
    /\ RoomItem(nm) # HeldItem(nm)
    /\ ~InSeq(RoomItem(nm), inventory)
    /\ ~InSeq(HeldItem(nm), room_items[location])

\* messages of the commands themselves quote the name as typed
TypedKeys ==
    { "LOOK_NO_ITEM", "ALREADY_IN_INVENTORY", "TAKE_NO_ITEM", "DISCARD_NO_ITEM",
      "PUT_NOT_CONTAINER", "PUT_NO_CONTAINER", "PUT_NO_ITEM", "REMOVE_NO_CONTAINER",
      "REMOVE_NO_ITEM", "OPEN_NOT_CONTAINER", "OPEN_NO_CONTAINER",
      "CLOSE_NOT_CONTAINER", "CLOSE_NO_CONTAINER" }

Shown(e) == IF IsMsg(e) /\ e[2] \in TypedKeys THEN <<e[1], e[2]>> ELSE e

\* what a call did, messages in full except for the name as typed
Outcome(s) ==
    << s.room_items, s.inventory, s.location, s.item_room, s.item_player,
       s.owner, s.con_items, s.opened, s.locked, s.blocked, s.subs, s.err,
       s.fail, [k \in 1..Len(s.log) |-> Shown(s.log[k])] >>

\* the line typed does what the reference line does
ActsAs(typed, reference) ==
    Outcome(KernelInput(Cur, Commands, typed))
        = Outcome(KernelInput(Cur, Commands, reference))

\* look, open, close on the shared name act on the room's item
OneNameOnRoomItem(nm) ==
    \A v \in {W_look, W_open, W_close} :
        ActsAs(Line2(v, nm), Line2(v, Name(RoomItem(nm))))

\* put with the shared name as the item or as the container, and remove with
\* the shared name as the item, act on the room's item
TwoNamesOnRoomItem(nm) ==
    /\ \A c \in Containers :
          /\ ActsAs(Line4(W_put, nm, W_in, Name(c)),
                    Line4(W_put, Name(RoomItem(nm)), W_in, Name(c)))
          /\ ActsAs(Line4(W_remove, nm, W_from, Name(c)),
                    Line4(W_remove, Name(RoomItem(nm)), W_from, Name(c)))
    /\ ActsAs(Line4(W_put, W_coin, W_in, nm),
              Line4(W_put, W_coin, W_in, Name(RoomItem(nm))))

\* take reports the inventory's item and moves nothing
TakeReportsHeld(nm) ==
    /\ SelectSeq(KernelInput(Cur, Commands, Line2(W_take, nm)).log, IsMsg)
          = << Msg("ALREADY_IN_INVENTORY", nm, <<>>) >>
    /\ Outcome(KernelInput(Cur, Commands, Line2(W_take, nm)))[1] = room_items
    /\ Outcome(KernelInput(Cur, Commands, Line2(W_take, nm)))[2] = inventory
    /\ Outcome(KernelInput(Cur, Commands, Line2(W_take, nm)))[4] = item_room

\* discard acts on the inventory's item
DiscardOnHeld(nm) ==
    ActsAs(Line2(W_discard, nm), Line2(W_discard, Name(HeldItem(nm))))

\* C20: when an item of the current room and an item of the inventory answer
\* to the same name, look-item, put, remove, open and close act on the room's
\* item; take reports "already in your inventory" and does not move the
\* room's item; discard acts on the inventory's item
C20_ScopePrecedence ==
    AtPrompt => \A nm \in SharedNames :
        Overlap(nm) => /\ OneNameOnRoomItem(nm)
                       /\ TwoNamesOnRoomItem(nm)
                       /\ TakeReportsHeld(nm)
                       /\ DiscardOnHeld(nm)

\* the box is carried, the chest stands in the room, and "open case" has
\* opened the chest
C20_Witness ==
    /\ op = "input" /\ arg = Line2(W_open, W_case)
    /\ InSeq("box", inventory) /\ ~InSeq("box", room_items[location])
    /\ InSeq("chest", room_items[location])
    /\ HasEntry(log, EventEntry("on_open", Name("chest")))
    /\ opened["chest"]

(***************************************************************************)
(* C21: take from a locked container                                       *)
(***************************************************************************)
\* the step is an input line executed by the take command
TakeStep == AtPrompt /\ op' = "input" /\ log' # <<>> /\ log'[1] = ExecEntry("take")

\* the item Player.take is called with, NULL if the command does not call it
TakenItem ==
    IF PlayerGet(Cur, MatchOf("take", arg').a) # NULL THEN NULL
    ELSE RoomGet(Cur, location, MatchOf("take", arg').a)

LockedInside(i) == i # NULL /\ Takeable(i) /\ owner[i] # NULL /\ locked[owner[i]]

\* C21: a take of an item whose owning container is locked emits the
\* locked-inside message alone and changes nothing: the container stays
\* locked and closed, the item stays in it and in the room, the inventory
\* is as it was and on_take_item does not fire
C21_TakeLocked ==
    [][TakeStep /\ LockedInside(TakenItem) =>
          /\ log' = << ExecEntry("take"),
                       Msg("TAKE_IN_LOCKED_CONTAINER", Name(TakenItem),
                           Name(owner[TakenItem])) >>
          /\ locked'[owner[TakenItem]]
          /\ ~opened'[owner[TakenItem]]
          /\ UNCHANGED world]_vars

\* the coin is locked in the chest and a take of it was refused
C21_Witness ==
    /\ op = "input" /\ arg = Line2(W_take, W_coin)
    /\ owner["coin"] = "chest" /\ locked["chest"] /\ ~opened["chest"]
    /\ InSeq("coin", con_items["chest"]) /\ InSeq("coin", room_items[location])
    /\ log = << ExecEntry("take"),
                Msg("TAKE_IN_LOCKED_CONTAINER", W_coin, W_chest) >>

(***************************************************************************)
(* C22: contents travel with their container                               *)
(***************************************************************************)
\* the step is an input line executed by the discard command
DiscardStep == AtPrompt /\ op' = "input" /\ log' # <<>> /\ log'[1] = ExecEntry("discard")

DiscardedItem == PlayerGet(Cur, MatchOf("discard", arg').a)

\* the container and the items inside it
WithContents(c) == {c} \cup {con_items[c][k] : k \in 1..Len(con_items[c])}

\* after the step, x is held and not in the list of the room it was taken in
HeldAfter(x) ==
    /\ item_player'[x] = PLAYER
    /\ item_room'[x] = NULL
    /\ InSeq(x, inventory')
    /\ ~InSeq(x, room_items'[location])

\* after the step, x lies in the current room and is not held
DroppedAfter(x) ==
    /\ item_room'[x] = location
    /\ item_player'[x] = NULL
    /\ InSeq(x, room_items'[location])
    /\ ~InSeq(x, inventory')

TakesContainer(c) ==
    /\ TakeStep /\ TakenItem = c
    /\ Takeable(c)
    /\ owner[c] = NULL

DiscardsContainer(c) ==
    /\ DiscardStep /\ DiscardedItem = c

ContainerTravels(c) ==
    /\ TakesContainer(c) =>
          /\ \A x \in WithContents(c) : HeldAfter(x)
          /\ \A x \in WithContents(c) \ {c} : owner'[x] = c
    /\ DiscardsContainer(c) =>
          \A x \in WithContents(c) : DroppedAfter(x)

\* C22: a take of a takeable container of the room leaves it and every item
\* inside it in the inventory and in no room, each content still owned by
\* the container; a discard of the container leaves it and all its contents
\* in the current room's list and out of the inventory
C22_ContentsTravel == [][\A c \in Containers : ContainerTravels(c)]_vars

\* the box was taken with the coin inside it
C22_Witness ==
    /\ op = "input" /\ arg = Line2(W_take, W_box)
    /\ con_items["box"] = <<"coin">> /\ owner["coin"] = "box"
    /\ inventory = <<"box", "coin">>
    /\ item_player["coin"] = PLAYER /\ item_room["coin"] = NULL
    /\ \A r \in Rooms : ~InSeq("coin", room_items[r])

\* the box was discarded with the coin inside it
C22_WitnessDiscard ==
    /\ op = "input" /\ arg = Line2(W_discard, W_box)
    /\ con_items["box"] = <<"coin">> /\ owner["coin"] = "box"
    /\ inventory = <<>>
    /\ InSeq("coin", room_items[location]) /\ InSeq("box", room_items[location])

(***************************************************************************)
(* C23: narrative failures never raise                                     *)
(***************************************************************************)
\* C23: CommandKernel.input returns normally for every input line in every
\* state commands can reach: no exception from Room.remove, from
\* Event.subscribe/unsubscribe or from a null room, player or owner; a
\* failure shows as echoed messages only
C23_NeverRaises ==
    op = "input" => /\ err = ""
                    /\ fail => \E k \in 1..Len(log) : IsMsg(log[k])

\* a put into the locked chest failed with a message and no exception
C23_Witness ==
    /\ op = "input" /\ arg = PutLine("coin", "chest")
    /\ fail /\ err = ""
    /\ HasKey(log, "ADD_LOCKED")

(***************************************************************************)
(* C24: integrity faults fail loudly                                       *)
(***************************************************************************)
ScriptStep(call) == AtPrompt /\ op' = call

\* the call raised the error and left the world as it was
RaisedOnly(e) == err' = e /\ UNCHANGED world

RemoveAbsentItem ==
    ScriptStep("Room.remove") /\ ~InSeq(arg'[2], room_items[arg'[1]])

RemoveAbsentRoom == ScriptStep("remove_room") /\ ~InSeq(arg', world_rooms)

AddPresentRoom ==
    ScriptStep("add_rooms") /\ \E k \in 1..Len(arg') : InSeq(arg'[k], world_rooms)

UnsubscribeAbsent == ScriptStep("unsubscribe") /\ ~InSeq(arg'[2], subs[arg'[1]])

AddPathNowhere == ScriptStep("add_path") /\ arg'[2] \notin DIRECTIONS

\* C24: Room.remove of an item not in the room, remove_room of a room not
\* in the world, add_rooms of a room already in the world, unsubscribe of a
\* callback not subscribed and add_path with a word that is not a direction
\* each raise an error and leave lists, subscriptions and paths unchanged
C24_FailLoudly ==
    [][ /\ RemoveAbsentItem => RaisedOnly("RuntimeError")
        /\ RemoveAbsentRoom => RaisedOnly("RuntimeError")
        /\ AddPresentRoom => RaisedOnly("RuntimeError")
        /\ UnsubscribeAbsent => RaisedOnly("RuntimeError")
        /\ AddPathNowhere => RaisedOnly("ValueError") ]_vars

\* what the code does: add_rooms raises at the first room of its argument
\* that is in the world, after it has added the rooms before that one
AddPresentRoomFirst == ScriptStep("add_rooms") /\ InSeq(arg'[1], world_rooms)

C24_FailLoudlyFirst ==
    [][ /\ RemoveAbsentItem => RaisedOnly("RuntimeError")
        /\ RemoveAbsentRoom => RaisedOnly("RuntimeError")
        /\ AddPresentRoom => err' = "RuntimeError"
        /\ AddPresentRoomFirst => RaisedOnly("RuntimeError")
        /\ UnsubscribeAbsent => RaisedOnly("RuntimeError")
        /\ AddPathNowhere => RaisedOnly("ValueError") ]_vars

\* add_rooms of the hall, which had been removed, and the lab, which is in
\* the world, raised with the hall added
C24_Witness ==
    /\ op = "add_rooms" /\ arg = <<"hall", "lab">>
    /\ err = "RuntimeError"
    /\ world_rooms = <<"lab", "hall">>

(***************************************************************************)
(* C25: duplicate names                                                    *)
(***************************************************************************)
NamesOfEntity(i) == {Name(i)} \cup Synonyms(i)

\* an entity of the scope answers to a name of i (i itself included)
Clashes(i, scope) ==
    \E k \in 1..Len(scope) : NamesOfEntity(i) \cap NamesOfEntity(scope[k]) # {}

AddsDuplicate ==
    \/ ScriptStep("Room.add") /\ Clashes(arg'[2], room_items[arg'[1]])
    \/ ScriptStep("Player._insert") /\ Clashes(arg'[2], inventory)
    \/ ScriptStep("Container._insert") /\ Clashes(arg'[2], con_items[arg'[1]])

\* C25: adding to a room, an inventory or a container an entity that shares
\* a name or synonym with an entity already there, or that is already
\* there, aborts with an error
C25_DuplicatesRejected == [][AddsDuplicate => err' # ""]_vars

\* what the code does: names are never compared; an entity already in a
\* room or a container is skipped without an error, one already in the
\* inventory is appended again
C25_DuplicatesAccepted ==
    [][ /\ (ScriptStep("Room.add") /\ InSeq(arg'[2], room_items[arg'[1]]))
            => err' = "" /\ UNCHANGED world
        /\ (ScriptStep("Container._insert") /\ InSeq(arg'[2], con_items[arg'[1]]))
            => err' = "" /\ UNCHANGED world
        /\ (ScriptStep("Player._insert") /\ InSeq(arg'[2], inventory)
               /\ item_room[arg'[2]] = NULL /\ item_player[arg'[2]] = PLAYER
               /\ subs[arg'[2]] = <<PlayerCb>> /\ ~IsContainer(arg'[2]))
            => err' = "" /\ inventory' = Append(inventory, arg'[2]) ]_vars

\* the coin was inserted into the inventory that held it and is there twice
C25_Witness ==
    /\ op = "Player._insert" /\ arg = <<PLAYER, "coin">>
    /\ err = ""
    /\ Count(inventory, "coin") = 2

(***************************************************************************)
(* C26: no container inside a container                                    *)
(***************************************************************************)
NotNested ==
    \A c \in Containers :
        /\ ~Containable(c)
        /\ owner[c] = NULL
        /\ \A d \in Containers : ~InSeq(c, con_items[d])

PutsContainerInContainer ==
    /\ PutStep
    /\ PutItem \in Containers
    /\ PutContainer \in Containers

RefusedNotContainable ==
    /\ log' = << ExecEntry("put"),
                 Msg("ADD_NOT_CONTAINABLE", Name(PutItem), Name(PutContainer)) >>
    /\ UNCHANGED world

\* C26: in every reachable state every container has containable false and
\* no owner and is in no container's list; a put of a container into a
\* container, itself included, is refused with the not-containable message
\* and changes nothing
C26_NoNesting ==
    /\ []NotNested
    /\ [][PutsContainerInContainer => RefusedNotContainable]_vars

\* a put of the box into itself was refused
C26_Witness ==
    /\ op = "input" /\ arg = PutLine("box", "box")
    /\ opened["box"]
    /\ log = << ExecEntry("put"), Msg("ADD_NOT_CONTAINABLE", W_box, W_box) >>

(***************************************************************************)
(* C27: which items a look shows                                           *)
(***************************************************************************)
LookItemStep ==
    AtPrompt /\ op' = "input" /\ log' # <<>> /\ log'[1] = ExecEntry("look item")

LookedName == MatchOf("look item", arg').a
LookedItem == Resolve(Cur, LookedName)

\* found, and unowned or inside an open container
InSight(i) == i # NULL /\ (owner[i] = NULL \/ opened[owner[i]])

\* the item's look ran: the description first, on_look once and last
Looked(i) ==
    /\ Len(log') >= 3
    /\ log'[2] = Msg("DESCRIPTION", Name(i), <<>>)
    /\ log'[Len(log')] = EventEntry("on_look", Name(i))
    /\ Cardinality({k \in 1..Len(log') : IsEvent(log'[k])}) = 1
    /\ ~HasKey(log', "LOOK_NO_ITEM")

NotSeen ==
    log' = << ExecEntry("look item"), Msg("LOOK_NO_ITEM", LookedName, <<>>) >>

\* C27: a look at a name runs the item's look (description, then on_look)
\* exactly when the name resolves in the room or the inventory to an item
\* that is unowned or inside an open container; otherwise it emits the one
\* "You don't see a ..." message and no on_look
C27_LookVisibility ==
    [][LookItemStep => IF InSight(LookedItem) THEN Looked(LookedItem) ELSE NotSeen]_vars

\* a look at the coin inside the closed chest was answered "you don't see"
C27_Witness ==
    /\ op = "input" /\ arg = Line2(W_look, W_coin)
    /\ owner["coin"] = "chest" /\ ~opened["chest"]
    /\ InSeq("coin", room_items[location])
    /\ log = << ExecEntry("look item"), Msg("LOOK_NO_ITEM", W_coin, <<>>) >>

\* a look at the coin inside the open box showed it
C27_WitnessSeen ==
    /\ op = "input" /\ arg = Line2(W_look, W_coin)
    /\ owner["coin"] = "box" /\ opened["box"]
    /\ HasEntry(log, Msg("DESCRIPTION", W_coin, <<>>))
    /\ HasEntry(log, EventEntry("on_look", W_coin))

(***************************************************************************)
(* C28: the inventory listing                                              *)
(***************************************************************************)
InventoryStep ==
    AtPrompt /\ op' = "input" /\ log' # <<>> /\ log'[1] = ExecEntry("inventory")

\* the held items that are in no container, in the order of the inventory
Loose == SelectSeq(inventory, LAMBDA i : owner[i] = NULL)

\* a word of a listing without the comma after it
Uncomma(w) == IF w # <<>> /\ w[Len(w)] = "," THEN SubSeq(w, 1, Len(w) - 1) ELSE w

\* the names a listing names, in its order: its words but "and"
NamesListed(str) ==
    SelectSeq([k \in 1..Len(Split(str)) |-> Uncomma(Split(str)[k])],
              LAMBDA w : w # W_and)

\* C28: the inventory command lists the names of the held items whose owner
\* is null, in inventory order, says "no items" exactly when there is no
\* such item, and changes nothing
C28_InventoryListing ==
    [][InventoryStep =>
          /\ Len(log') = 2 /\ IsMsg(log'[2])
          /\ IF Loose # <<>>
             THEN log'[2][2] = "INVENTORY" /\ NamesListed(log'[2][3]) = NamesOf(Loose)
             ELSE log'[2] = Msg("NO_ITEMS", <<>>, <<>>)
          /\ UNCHANGED world]_vars

\* the box is held with the coin in it, and the listing names the box alone
C28_Witness ==
    /\ op = "input" /\ arg = W_inventory
    /\ inventory = <<"box", "coin">> /\ owner["coin"] = "box"
    /\ log = << ExecEntry("inventory"), Msg("INVENTORY", W_box, <<>>) >>

\* both are held loose and are listed in the order they were taken
C28_WitnessTwo ==
    /\ op = "input" /\ arg = W_inventory
    /\ inventory = <<"coin", "box">> /\ owner["coin"] = NULL
    /\ HasKey(log, "INVENTORY")

(***************************************************************************)
(* C29: remove validates ownership                                         *)
(***************************************************************************)
RemoveStep == AtPrompt /\ op' = "input" /\ log' # <<>> /\ log'[1] = ExecEntry("remove")

RemovedName == MatchOf("remove", arg').a
StatedName == MatchOf("remove", arg').b
RemovedItem == Resolve(Cur, RemovedName)

\* the container is one the stated name denotes
Stated(c) == c # NULL /\ StatedName \in {Name(c)} \cup Synonyms(c)

\* the item left its container in this step
LeftOwner(i) ==
    /\ owner[i] # NULL /\ owner'[i] = NULL
    /\ ~InSeq(i, con_items'[owner[i]])
    /\ HasKey(log', "REMOVE")

\* C29: a remove takes the item out only when its owner is the stated
\* container; for an item that is unowned or owned by another container it
\* emits the not-in message alone and changes nothing; for a name that
\* resolves to no item it emits the no-item message
C29_RemoveValidates ==
    [][RemoveStep =>
          /\ \A i \in Items : LeftOwner(i) => i = RemovedItem /\ Stated(owner[i])
          /\ (RemovedItem # NULL /\ ~Stated(owner[RemovedItem]))
                => /\ log' = << ExecEntry("remove"),
                                Msg("REMOVE_NO_CONTAINER", RemovedName, StatedName) >>
                   /\ UNCHANGED world
          /\ RemovedItem = NULL
                => /\ log' = << ExecEntry("remove"),
                                Msg("REMOVE_NO_ITEM", RemovedName, Name(location)) >>
                   /\ UNCHANGED world]_vars

\* the coin lies in the open chest and the box is in reach: removing it from
\* the box is refused
C29_Witness ==
    /\ op = "input" /\ arg = Line4(W_remove, W_coin, W_from, W_box)
    /\ owner["coin"] = "chest" /\ opened["chest"] /\ ~locked["chest"]
    /\ Resolve(Cur, W_box) = "box"
    /\ log = << ExecEntry("remove"), Msg("REMOVE_NO_CONTAINER", W_coin, W_box) >>

\* the coin is unowned
C29_WitnessUnowned ==
    /\ op = "input" /\ arg = Line4(W_remove, W_coin, W_from, W_box)
    /\ owner["coin"] = NULL /\ Resolve(Cur, W_coin) = "coin"
    /\ HasKey(log, "REMOVE_NO_CONTAINER")

\* the coin was taken out of the container that was named
C29_WitnessRemoved ==
    /\ op = "input" /\ arg = Line4(W_remove, W_coin, W_from, W_chest)
    /\ owner["coin"] = NULL /\ HasKey(log, "REMOVE")

\* no item of that name
C29_WitnessNoItem ==
    /\ op = "input" /\ HasKey(log, "REMOVE_NO_ITEM")

(***************************************************************************)
(* C30: take of an item that cannot be taken                               *)
(***************************************************************************)
\* Player.take is called with an item whose inventory flag is false
TakesFixed == TakeStep /\ TakenItem # NULL /\ ~Takeable(TakenItem)

CantTake == Msg("TAKE_NOT_INVENTORY", Name(TakenItem), <<>>)

\* C30: a take of an item whose inventory flag is false emits the
\* "You can't take" message exactly once, changes nothing and triggers no
\* on_take_item
C30_TakeNotTakeable ==
    [][TakesFixed =>
          /\ log' = << ExecEntry("take"), CantTake >>
          /\ UNCHANGED world]_vars

\* what the code does: the message twice, nothing changed, no event
C30_TakeNotTakeableTwice ==
    [][TakesFixed =>
          /\ log' = << ExecEntry("take"), CantTake, CantTake >>
          /\ UNCHANGED world]_vars

\* the chest was asked for and is still where it was
C30_Witness ==
    /\ op = "input" /\ arg = Line2(W_take, W_chest)
    /\ log = << ExecEntry("take"), Msg("TAKE_NOT_INVENTORY", W_chest, <<>>),
                Msg("TAKE_NOT_INVENTORY", W_chest, <<>>) >>
    /\ InSeq("chest", room_items[location]) /\ inventory = <<>>

(***************************************************************************)
(* C31: discard of an item that is not held                                *)
(***************************************************************************)
DiscardsAbsent(i) ==
    AtPrompt /\ op' = "Player.discard" /\ arg' = <<PLAYER, i>> /\ ~InSeq(i, inventory)

\* the confirmation a successful discard of i gives
Confirmation(i) == Msg("DISCARD", Name(i), Name(location))

\* C31: Player.discard on an item that is not in the inventory emits a
\* message that is not the confirmation of a discard, changes nothing and
\* does not trigger on_discard_item
C31_DiscardAbsent ==
    [][\A i \in Items : DiscardsAbsent(i) =>
          /\ Len(log') = 1 /\ IsMsg(log'[1]) /\ log'[1] # Confirmation(i)
          /\ UNCHANGED world]_vars

\* what the code does: the confirmation itself, nothing changed, no event
C31_DiscardAbsentConfirms ==
    [][\A i \in Items : DiscardsAbsent(i) =>
          /\ log' = << Confirmation(i) >>
          /\ UNCHANGED world]_vars

\* the coin lies in the hall, nothing is held, and discarding it is confirmed
C31_Witness ==
    /\ op = "Player.discard" /\ arg = <<PLAYER, "coin">>
    /\ inventory = <<>> /\ InSeq("coin", room_items["hall"]) /\ location = "hall"
    /\ log = << Msg("DISCARD", W_coin, Name("hall")) >>

(***************************************************************************)
(* C32: the blocking state machine of a path, in room.py and in path.py    *)
(***************************************************************************)
TheDoor == <<"hall", W_north>>

DoorMsg(key) == Msg(key, PathName(TheDoor), Name(PathDest(TheDoor)))

\* the confirmation, which a call with echo=False leaves out
Confirming(key) == IF arg'[2] THEN << DoorMsg(key) >> ELSE <<>>

\* what block, unblock and toggle are to do to a path that was blocked = b
\* and is blocked = b2 afterwards
Blocking(call, b, b2) ==
    /\ (call = "block" /\ ~b) =>
           b2 /\ log' = Confirming("BLOCK") \o << EventEntry("on_block", TheDoor[2]) >>
    /\ (call = "block" /\ b) => b2 /\ log' = << DoorMsg("ALREADY_BLOCKED") >>
    /\ (call = "unblock" /\ ~b) => ~b2 /\ log' = << DoorMsg("ALREADY_UNBLOCKED") >>
    /\ call = "toggle" => b2 = ~b

\* the class of room.py
RoomPathBlocking ==
    \A call \in {"block", "unblock", "toggle"} :
        (AtPrompt /\ op' = call) =>
            Blocking(call, blocked[TheDoor], blocked'[TheDoor])

\* the class of path.py
PathPyBlocking ==
    \A call \in {"block", "unblock", "toggle"} :
        (AtPrompt /\ op' = "Path." \o call) =>
            Blocking(call, path_blocked, path_blocked')

\* C32: in both classes, block on an unblocked path sets blocked, echoes
\* "now blocked" and fires on_block; block on a blocked path echoes "already
\* blocked" and unblock on an unblocked path echoes "already unblocked",
\* each leaving blocked as it was and firing no event; toggle flips blocked
C32_PathBlocking == [][RoomPathBlocking /\ PathPyBlocking]_vars

\* the class of room.py alone does
C32_RoomPathBlocking == [][RoomPathBlocking]_vars

\* the path of path.py is blocked, is blocked again, and says it is
\* already unblocked
C32_Witness ==
    /\ op = "Path.block" /\ arg[2] /\ path_blocked /\ fail
    /\ log = << DoorMsg("ALREADY_UNBLOCKED") >>

(***************************************************************************)
(* C33: take opens the container of the item                               *)
(***************************************************************************)
\* the item is in a closed, unlocked container that stands in the room of
\* the player
InClosedHere(i) ==
    /\ i # NULL /\ Takeable(i) /\ ~InInventory(i)
    /\ owner[i] # NULL /\ ~locked[owner[i]] /\ ~opened[owner[i]]
    /\ InSeq(i, con_items[owner[i]])
    /\ InSeq(owner[i], room_items[location])

\* what the claim orders: the messages and events of open, remove and take
Ordered(e) ==
    \/ IsMsg(e) /\ e[2] \in {"OPEN", "LOOK_ITEMS", "LOOK_EMPTY", "REMOVE", "TAKE"}
    \/ IsEvent(e) /\ e[2] \in {"on_open", "on_remove_item", "on_take_item"}

OpensRemovesTakes(i, c) ==
    << Msg("OPEN", Name(c), <<>>),
       Msg("LOOK_ITEMS", Name(c), ContainerContextItems(NamesOf(con_items[c]))),
       EventEntry("on_open", Name(c)),
       Msg("REMOVE", Name(i), Name(c)),
       EventEntry("on_remove_item", Name(c)),
       Msg("TAKE", Name(i), <<>>),
       EventEntry("on_take_item", Name(i)) >>

\* C33: a take of a takeable item inside a closed, unlocked container in the
\* room opens the container (open message, contents listing, on_open), then
\* removes the item (remove message, on_remove_item), then puts it in the
\* inventory (take message, on_take_item), in that order; afterwards the
\* container is open and the item is held and has no owner
C33_TakeAutoOpens ==
    [][(TakeStep /\ InClosedHere(TakenItem)) =>
          /\ SelectSeq(log', Ordered) = OpensRemovesTakes(TakenItem, owner[TakenItem])
          /\ opened'[owner[TakenItem]]
          /\ InSeq(TakenItem, inventory')
          /\ owner'[TakenItem] = NULL
          /\ ~InSeq(TakenItem, con_items'[owner[TakenItem]])]_vars

\* the coin was taken out of the chest, which was closed and is now open
C33_Witness ==
    /\ op = "input" /\ arg = Line2(W_take, W_coin)
    /\ SelectSeq(log, Ordered) =
          << Msg("OPEN", W_chest, <<>>),
             Msg("LOOK_ITEMS", W_chest, ContainerContextItems(<<W_coin>>)),
             EventEntry("on_open", W_chest),
             Msg("REMOVE", W_coin, W_chest),
             EventEntry("on_remove_item", W_chest),
             Msg("TAKE", W_coin, <<>>),
             EventEntry("on_take_item", W_coin) >>
    /\ opened["chest"] /\ inventory = <<"coin">> /\ owner["coin"] = NULL

(***************************************************************************)
(* C34: the argument of the move command                                   *)
(***************************************************************************)
\* direction synonyms, each with its canonical direction
DirectionPairs ==
    { << <<"n">>, W_north >>, << W_north \o <<"w","a","r","d">>, W_north >>,
      << W_north \o <<"w","a","r","d","s">>, W_north >>,
      << <<"s">>, W_south >>, << W_south \o <<"w","a","r","d">>, W_south >>,
      << <<"e">>, W_east >>, << <<"u">>, W_up >>,
      << W_down \o <<"w","a","r","d","s">>, W_down >> }

\* the synonym does all the canonical direction does, messages included
SameMove(pair) ==
    KernelInput(Cur, Commands, Line2(W_go, pair[1]))
        = KernelInput(Cur, Commands, Line2(W_go, pair[2]))

MoveStep == AtPrompt /\ op' = "input" /\ log' # <<>> /\ log'[1] = ExecEntry("move")

TypedDirection == MatchOf("move", arg').a

\* the canonical direction typed, NULL if the word is no direction
Canonical(w) == IF w \in DIRECTIONS THEN w ELSE DIRECTION_SYNONYMS(w)

\* the one message, and nothing else done
OnlySays(m) == log' = << ExecEntry("move"), m >> /\ UNCHANGED world

\* C34: a direction synonym has the same effect as its canonical direction;
\* a word that is no direction yields the one "is not a direction" message
\* and a direction without a path the one "You can't go" message, and then
\* the location is unchanged and no exit, enter or move event fires
C34_MoveArguments ==
    /\ [](AtPrompt => \A pair \in DirectionPairs : SameMove(pair))
    /\ [][MoveStep =>
            /\ Canonical(TypedDirection) = NULL
                  => OnlySays(Msg("NO_DIRECTION", TypedDirection, <<>>))
            /\ (Canonical(TypedDirection) # NULL
                   /\ GetPath(location, Canonical(TypedDirection)) = NULL)
                  => OnlySays(Msg("NO_PATH", Canonical(TypedDirection), <<>>))]_vars

\* "go n" took the player from the hall to the lab
C34_Witness ==
    /\ op = "input" /\ arg = Line2(W_go, <<"n">>)
    /\ location = "lab" /\ HasEntry(log, EventEntry("on_move", W_north))

\* no such direction
C34_WitnessNoDirection ==
    /\ op = "input" /\ arg = Line2(W_go, W_sideways)
    /\ log = << ExecEntry("move"), Msg("NO_DIRECTION", W_sideways, <<>>) >>

\* no path that way
C34_WitnessNoPath ==
    /\ op = "input" /\ arg = Line2(W_go, W_east)
    /\ log = << ExecEntry("move"), Msg("NO_PATH", W_east, <<>>) >>

(***************************************************************************)
(* C35: preprocessing removes punctuation only                             *)
(***************************************************************************)
IsLetter(c) == \E k \in 1..26 : UPPER[k] = c \/ LOWER[k] = c

\* neither a letter, nor a digit, nor white space
IsPunctuation(c) == ~IsLetter(c) /\ c \notin DIGITS /\ c \notin Whitespace

\* lowercased, without punctuation, without stopword tokens, the tokens
\* joined by single spaces
Cleaned(input, stop) ==
    Join(SelectSeq(
            Split(SelectSeq([k \in 1..Len(input) |-> Lower(input[k])],
                            LAMBDA c : ~IsPunctuation(c))),
            LAMBDA x : x \notin stop))

PreprocessStep == AtPrompt /\ op' = "_preprocess"

HasDigit(str) == \E k \in 1..Len(str) : str[k] \in DIGITS

\* C35: _preprocess lowercases the input, deletes the punctuation, drops the
\* stopword tokens and joins the rest with single spaces, keeping every
\* letter and every digit of the remaining tokens
C35_PreprocessKeepsDigits ==
    [][PreprocessStep => ret' = Cleaned(arg'[1], arg'[2])]_vars

\* it does so for input without digits
C35_PreprocessLetters ==
    [][(PreprocessStep /\ ~HasDigit(arg'[1])) => ret' = Cleaned(arg'[1], arg'[2])]_vars

\* "take key2" has become "take key"
C35_Witness ==
    /\ op = "_preprocess" /\ arg[1] = Line2(W_take, W_key2)
    /\ ret = Line2(W_take, <<"k","e","y">>)

(***************************************************************************)
(* C36: unlock also opens                                                  *)
(***************************************************************************)
UnlockStep(c) == AtPrompt /\ op' = "unlock" /\ arg' = Name(c)

\* what the claim orders: the messages and events of unlock and open
UnlockOrdered(e) ==
    \/ IsMsg(e) /\ e[2] \in {"UNLOCK", "ALREADY_UNLOCKED", "OPEN", "ALREADY_OPEN",
                              "LOOK_ITEMS", "LOOK_EMPTY"}
    \/ IsEvent(e) /\ e[2] \in {"on_unlock", "on_open"}

\* the listing Container.look gives of an open container
ContentsListing(c) ==
    IF con_items[c] # <<>>
    THEN Msg("LOOK_ITEMS", Name(c), ContainerContextItems(NamesOf(con_items[c])))
    ELSE Msg("LOOK_EMPTY", Name(c), <<>>)

\* C36: unlock on a locked container leaves it unlocked and open, with the
\* unlock message and on_unlock before the open message, the contents
\* listing and on_open; unlock on an unlocked container emits "already
\* unlocked" alone and changes neither locked nor opened
C36_UnlockOpens ==
    [][\A c \in Containers : UnlockStep(c) =>
          IF locked[c]
          THEN /\ ~locked'[c] /\ opened'[c]
               /\ SelectSeq(log', UnlockOrdered) =
                     << Msg("UNLOCK", Name(c), <<>>), EventEntry("on_unlock", Name(c)),
                        Msg("OPEN", Name(c), <<>>), ContentsListing(c),
                        EventEntry("on_open", Name(c)) >>
          ELSE /\ log' = << Msg("ALREADY_UNLOCKED", Name(c), <<>>) >>
               /\ UNCHANGED world]_vars

\* the chest, locked with the coin in it, has been unlocked and stands open
C36_Witness ==
    /\ op = "unlock" /\ arg = W_chest
    /\ ~locked["chest"] /\ opened["chest"] /\ con_items["chest"] = <<"coin">>
    /\ HasEntry(log, Msg("UNLOCK", W_chest, <<>>))
    /\ HasEntry(log, EventEntry("on_open", W_chest))

\* nothing to unlock
C36_WitnessUnlocked ==
    /\ op = "unlock" /\ arg = W_box /\ fail
    /\ log = << Msg("ALREADY_UNLOCKED", W_box, <<>>) >>

(***************************************************************************)
(* C37: Key.use                                                            *)
(***************************************************************************)
KeyUseStep(k, target) == AtPrompt /\ op' = "Key.use" /\ arg' = <<k, target>>

\* the key's room is the container's room, or the key is held and its
\* holder is in the container's room
KeyInReach(k, c) ==
    \/ item_room[k] = item_room[c]
    \/ item_player[k] # NULL /\ location = item_room[c]

\* the key unlocked the container, or found it unlocked, and was used
Unlocks(k, c) ==
    /\ err' = ""
    /\ ~locked'[c]
    /\ locked[c] => HasEntry(log', Msg("UNLOCK", Name(c), <<>>)) /\ opened'[c]
    /\ HasEntry(log', EventEntry("on_use", Name(k)))

\* the key says so and nothing happens
Refuses(m) ==
    /\ err' = ""
    /\ log' = << m >>
    /\ UNCHANGED world

KeyUsed(k, target) ==
    IF target = NULL THEN Refuses(Msg("NO_CONTAINER_TO_OPEN", Name(k), <<>>))
    ELSE IF KeyInReach(k, target) THEN Unlocks(k, target)
    ELSE Refuses(Msg("CONTAINER_NOT_IN_ROOM", Name(k),
                      IF item_room[k] # NULL THEN Name(item_room[k])
                      ELSE Name(location)))

\* C37: a key with a target unlocks it exactly when the key's room is the
\* container's room or the key holder's location is the container's room;
\* in every other placement it echoes "doesn't open anything in the <room>",
\* leaves locked and opened unchanged, triggers no on_use and raises
\* nothing; a key without a target echoes "doesn't unlock anything"
C37_KeyUse ==
    [][\A k \in Keys, target \in Containers \cup {NULL} :
          KeyUseStep(k, target) => KeyUsed(k, target)]_vars

\* the same for a key that is held or lies in the container's room
C37_KeyUseInReachOrHeld ==
    [][\A k \in Keys, target \in Containers \cup {NULL} :
          (KeyUseStep(k, target)
             /\ (target = NULL \/ KeyInReach(k, target) \/ item_player[k] # NULL))
            => KeyUsed(k, target)]_vars

\* a key lying in a room away from its container raises
C37_KeyUseAwayRaises ==
    [][\A k \in Keys, target \in Containers :
          (KeyUseStep(k, target) /\ ~KeyInReach(k, target) /\ item_player[k] = NULL)
            => err' = "AttributeError" /\ log' = <<>> /\ UNCHANGED world]_vars

\* the key lies in the lab, the locked chest stands in the hall, and the use
\* of the key has raised
C37_Witness ==
    /\ op = "Key.use" /\ arg = <<"coin", "chest">>
    /\ item_room["coin"] = "lab" /\ item_room["chest"] = "hall" /\ locked["chest"]
    /\ owner["coin"] = NULL
    /\ err = "AttributeError"

\* the key is held in the lab and says it opens nothing there
C37_WitnessHeldAway ==
    /\ op = "Key.use" /\ arg = <<"coin", "chest">>
    /\ item_player["coin"] # NULL /\ location = "lab" /\ locked["chest"]
    /\ HasKey(log, "CONTAINER_NOT_IN_ROOM")

\* the key in the hall has unlocked the chest
C37_WitnessUnlocks ==
    /\ op = "Key.use" /\ arg = <<"coin", "chest">>
    /\ item_room["coin"] = "hall" /\ ~locked["chest"] /\ opened["chest"]
    /\ HasKey(log, "UNLOCK")

(***************************************************************************)
(* C38: event delivery when callbacks unsubscribe during the trigger       *)
(***************************************************************************)
TriggerStep == AtPrompt /\ op' = "Event.trigger"

IsCall(e) == e[1] = "call"

\* the callbacks called, in the order of the calls
Called(l) == [k \in 1..Len(SelectSeq(l, IsCall)) |-> SelectSeq(l, IsCall)[k][2]]

\* every callback subscribed when the trigger starts is called once, in
\* subscription order
DeliversToAll == TriggerStep /\ err' = "" => Called(log') = callbacks

\* subscribing a subscribed callback raises and the list holds nothing twice
NeverTwice ==
    \A cb \in EventCallbacks :
        (AtPrompt /\ op' = "Event.subscribe" /\ arg' = cb /\ InSeq(cb, callbacks))
            => err' = "RuntimeError" /\ callbacks' = callbacks

\* C38: a trigger calls every callback that was subscribed when it started
\* exactly once, in subscription order, also when a callback unsubscribes
\* itself or another callback during the trigger; the list never holds a
\* callback twice, because subscribing a subscribed callback raises
C38_TriggerDelivers ==
    /\ [](NoDup(callbacks))
    /\ [][DeliversToAll /\ NeverTwice]_vars

\* no callback of the list unsubscribes anything
Quiet == \A k \in 1..Len(callbacks) : Unsubscribes(callbacks[k]) = NULL

\* what holds: delivery to all when no callback unsubscribes, and no
\* callback twice in the list
C38_TriggerDeliversQuiet ==
    /\ [](NoDup(callbacks))
    /\ [][((TriggerStep /\ Quiet) => Called(log') = callbacks) /\ NeverTwice]_vars

\* "once" was called, unsubscribed itself, and "plain" after it was skipped
C38_Witness ==
    /\ op = "Event.trigger" /\ err = ""
    /\ Called(log) = <<"once">>
    /\ callbacks = <<"plain">>

\* "ousts" unsubscribed "plain", which was to be called after it
C38_WitnessLater ==
    /\ op = "Event.trigger" /\ err = ""
    /\ Called(log) = <<"ousts", "last">>
    /\ callbacks = <<"ousts", "last">>

====
